---- MODULE Spec2Model ----
(***************************************************************************)
(* Model of the file-storage server (src/server.js): the path arithmetic  *)
(* of Node's posix `path` module as the handlers use it, the filesystem    *)
(* tree the handlers mutate, and one action per handler turn.              *)
(*                                                                         *)
(* A string is a sequence of one-character strings, so that prefixes,      *)
(* separators, `.`/`..` segments and sanitised characters are computed     *)
(* the way the code computes them.                                         *)
(***************************************************************************)
EXTENDS Integers, Sequences, FiniteSets, TLC

(***************************************************************************)
(* Strings                                                                 *)
(***************************************************************************)
SLASH == "/"
DOT == "."
EMPTY == << >>

\* String.prototype.startsWith
StartsWith(s, prefix) ==
    /\ Len(prefix) <= Len(s)
    /\ SubSeq(s, 1, Len(prefix)) = prefix

\* the characters the handlers replace: /[<>:"/\\|?*]/g
ForbiddenChars == {"<", ">", ":", "\"", "/", "\\", "|", "?", "*"}

\* name.replace(/[<>:"/\\|?*]/g, '_')
Sanitize(s) == [i \in 1..Len(s) |-> IF s[i] \in ForbiddenChars THEN "_" ELSE s[i]]

RECURSIVE TrimStart(_)
TrimStart(s) == IF s # EMPTY /\ Head(s) = " " THEN TrimStart(Tail(s)) ELSE s

RECURSIVE TrimEnd(_)
TrimEnd(s) ==
    IF s # EMPTY /\ s[Len(s)] = " " THEN TrimEnd(SubSeq(s, 1, Len(s) - 1)) ELSE s

\* String.prototype.trim
Trim(s) == TrimEnd(TrimStart(s))

Digit(d) == <<"0", "1", "2", "3", "4", "5", "6", "7", "8", "9">>[d + 1]

\* the decimal text of a counter, as template literals print a number
RECURSIVE NumStr(_)
NumStr(n) == IF n < 10 THEN <<Digit(n)>> ELSE NumStr(n \div 10) \o <<Digit(n % 10)>>

\* `${name} (${counter})${ext}`
\* the counter put after the extension
SuffixedAfterExt(name, counter, ext) == name \o ext \o <<" ", "(">> \o NumStr(counter) \o <<")">>

Suffixed(name, counter, ext) == name \o <<" ", "(">> \o NumStr(counter) \o <<")">> \o ext

(***************************************************************************)
(* Node's posix path module                                                *)
(***************************************************************************)
\* the segments between separators: s.split('/')
RECURSIVE SplitFrom(_, _, _)
SplitFrom(s, i, cur) ==
    IF i > Len(s) THEN <<cur>>
    ELSE IF s[i] = SLASH THEN <<cur>> \o SplitFrom(s, i + 1, EMPTY)
    ELSE SplitFrom(s, i + 1, Append(cur, s[i]))

Split(s) == SplitFrom(s, 1, EMPTY)

RECURSIVE JoinSegs(_)
JoinSegs(segs) ==
    IF segs = << >> THEN EMPTY
    ELSE IF Len(segs) = 1 THEN segs[1]
    ELSE segs[1] \o <<SLASH>> \o JoinSegs(Tail(segs))

\* normalizeString: drop empty and `.` segments, let `..` pop the previous
\* segment, keep a leading `..` only when the path is relative
RECURSIVE NormalizeSegs(_, _, _)
NormalizeSegs(segs, out, allowAboveRoot) ==
    IF segs = << >> THEN out
    ELSE LET seg == Head(segs)
             rest == Tail(segs)
         IN  IF seg = EMPTY \/ seg = <<DOT>> THEN NormalizeSegs(rest, out, allowAboveRoot)
             ELSE IF seg = <<DOT, DOT>>
                  THEN IF out # << >> /\ out[Len(out)] # <<DOT, DOT>>
                       THEN NormalizeSegs(rest, SubSeq(out, 1, Len(out) - 1), allowAboveRoot)
                       ELSE IF allowAboveRoot
                            THEN NormalizeSegs(rest, Append(out, seg), allowAboveRoot)
                            ELSE NormalizeSegs(rest, out, allowAboveRoot)
                  ELSE NormalizeSegs(rest, Append(out, seg), allowAboveRoot)

\* path.isAbsolute
IsAbsolute(p) == p # EMPTY /\ p[1] = SLASH

\* path.normalize
Normalize(p) ==
    IF p = EMPTY THEN <<DOT>>
    ELSE LET isAbs == IsAbsolute(p)
             trailingSep == p[Len(p)] = SLASH
             body == JoinSegs(NormalizeSegs(Split(p), << >>, ~isAbs))
         IN  IF body = EMPTY
             THEN IF isAbs THEN <<SLASH>>
                  ELSE IF trailingSep THEN <<DOT, SLASH>> ELSE <<DOT>>
             ELSE (IF isAbs THEN <<SLASH>> ELSE EMPTY) \o body
                  \o (IF trailingSep THEN <<SLASH>> ELSE EMPTY)

\* path.join of the non-empty arguments
RECURSIVE JoinRaw(_)
JoinRaw(args) ==
    IF args = << >> THEN EMPTY
    ELSE LET rest == JoinRaw(Tail(args))
         IN  IF Head(args) = EMPTY THEN rest
             ELSE IF rest = EMPTY THEN Head(args)
             ELSE Head(args) \o <<SLASH>> \o rest

Join(args) == LET joined == JoinRaw(args) IN IF joined = EMPTY THEN <<DOT>> ELSE Normalize(joined)

Join2(a, b) == Join(<<a, b>>)
Join3(a, b, c) == Join(<<a, b, c>>)

\* a path without its trailing separators (the root stays `/`)
RECURSIVE StripTrailing(_)
StripTrailing(p) ==
    IF Len(p) > 1 /\ p[Len(p)] = SLASH THEN StripTrailing(SubSeq(p, 1, Len(p) - 1)) ELSE p

\* index of the last occurrence of c in s, 0 when absent
RECURSIVE LastIndexOf(_, _, _)
LastIndexOf(s, c, i) ==
    IF i = 0 THEN 0 ELSE IF s[i] = c THEN i ELSE LastIndexOf(s, c, i - 1)

\* path.dirname
Dirname(p) ==
    IF p = EMPTY THEN <<DOT>>
    ELSE LET q == StripTrailing(p)
             k == LastIndexOf(q, SLASH, Len(q))
         IN  IF q = <<SLASH>> THEN <<SLASH>>
             ELSE IF k = 0 THEN <<DOT>>
             ELSE IF k = 1 THEN <<SLASH>>
             ELSE StripTrailing(SubSeq(q, 1, k - 1))

\* path.basename
Basename(p) ==
    LET q == StripTrailing(p)
        k == LastIndexOf(q, SLASH, Len(q))
    IN  IF q = <<SLASH>> THEN EMPTY ELSE SubSeq(q, k + 1, Len(q))

\* path.parse(p).ext: from the last dot of the base name, unless the base has
\* no dot, starts with its only relevant dot, or is `..`
ParseExt(p) ==
    LET base == Basename(p)
        d == LastIndexOf(base, DOT, Len(base))
    IN  IF d = 0 \/ d = 1 \/ base = <<DOT, DOT>> THEN EMPTY
        ELSE SubSeq(base, d, Len(base))

\* path.parse(p).name
ParseName(p) ==
    LET base == Basename(p)
    IN  SubSeq(base, 1, Len(base) - Len(ParseExt(p)))

(***************************************************************************)
(* The filesystem: a map from the absolute path of every existing entry to *)
(* the entry. StorageRoot is uploadDir; the entries outside it are what a  *)
(* path that escapes the root would reach.                                 *)
(***************************************************************************)
\* const uploadDir = process.env.UPLOAD_DIR || path.join(__dirname, 'uploads')
uploadDir == <<"/", "u">>

\* a sibling of the storage root whose path has the root's path as a prefix
siblingDir == <<"/", "u", "x">>
siblingFile == <<"/", "u", "x", "/", "k">>

ROOT == <<SLASH>>
NoData == << >>

DirEntry == [dir |-> TRUE, data |-> NoData]
FileEntry(bytes) == [dir |-> FALSE, data |-> bytes]

\* q is p or lies below p
Under(p, q) ==
    \/ q = p
    \/ p = ROOT
    \/ StartsWith(q, p \o <<SLASH>>)

\* strictly inside the storage root
InsideRoot(q) == StartsWith(q, uploadDir \o <<SLASH>>)

\* fs.existsSync: the entry exists; a trailing separator asks for a directory
ExistsSync(f, p) ==
    LET q == StripTrailing(p)
    IN  /\ q \in DOMAIN f
        /\ (q # p => f[q].dir)

\* fs.statSync(p).isDirectory()
IsDirectory(f, p) == f[StripTrailing(p)].dir

\* fs.readdirSync: the names of the immediate children
ReaddirSync(f, p) ==
    LET d == StripTrailing(p)
    IN  {Basename(q) : q \in {x \in DOMAIN f : x # d /\ Dirname(x) = d}}

Restrict(f, S) == [q \in S |-> f[q]]

\* a removal that takes the entry and leaves what is below it
RemoveEntryOnly(f, p) == Restrict(f, DOMAIN f \ {StripTrailing(p)})

\* fs.removeSync / fs.unlinkSync: the entry and everything below it
RemoveSync(f, p) ==
    LET d == StripTrailing(p)
    IN  Restrict(f, {q \in DOMAIN f : ~Under(d, q)})

\* fs.renameSync: the subtree moves to the new path in one step
RenameSync(f, old, new) ==
    LET o == StripTrailing(old)
        n == StripTrailing(new)
        moved == {q \in DOMAIN f : Under(o, q)}
        kept == DOMAIN f \ moved
        Target(q) == n \o SubSeq(q, Len(o) + 1, Len(q))
    IN  [q \in kept \cup {Target(m) : m \in moved} |->
            IF q \in kept THEN f[q]
            ELSE f[CHOOSE m \in moved : Target(m) = q]]

\* p and its ancestors, the root excluded
RECURSIVE Ancestors(_)
Ancestors(p) ==
    LET q == StripTrailing(p)
    IN  IF q = ROOT \/ q = <<DOT>> THEN {} ELSE {q} \cup Ancestors(Dirname(q))

\* fs.ensureDirSync throws when a component of the path is a regular file
EnsureDirThrows(f, p) == \E q \in Ancestors(p) : q \in DOMAIN f /\ ~f[q].dir

\* fs.ensureDirSync: mkdir -p
EnsureDirSync(f, p) ==
    LET new == Ancestors(p) \ DOMAIN f
    IN  [q \in DOMAIN f \cup new |-> IF q \in DOMAIN f THEN f[q] ELSE DirEntry]

\* fs.writeFile fails when the parent is not a directory or the path is one
WriteThrows(f, p) ==
    LET q == StripTrailing(p)
        parent == Dirname(q)
    IN  \/ parent \notin DOMAIN f
        \/ ~f[parent].dir
        \/ (q \in DOMAIN f /\ f[q].dir)
        \/ q # p

\* a write that leaves a file already stored under the path as it is
WriteFileKeeping(f, p, bytes) ==
    [q \in DOMAIN f \cup {p} |-> IF q = p /\ p \notin DOMAIN f THEN FileEntry(bytes) ELSE f[q]]

\* fs.writeFile / the write stream: create or truncate, then store the bytes
WriteFile(f, p, bytes) ==
    [q \in DOMAIN f \cup {p} |-> IF q = p THEN FileEntry(bytes) ELSE f[q]]

(***************************************************************************)
(* Requests and responses                                                  *)
(***************************************************************************)
\* path.relative between two absolute, normalized paths
RECURSIVE CommonLen(_, _)
CommonLen(a, b) ==
    IF a = << >> \/ b = << >> \/ Head(a) # Head(b) THEN 0
    ELSE 1 + CommonLen(Tail(a), Tail(b))

Segments(p) == SelectSeq(Split(p), LAMBDA seg : seg # EMPTY)

Relative(from, to) ==
    LET a == Segments(from)
        b == Segments(to)
        c == CommonLen(a, b)
        ups == [i \in 1..(Len(a) - c) |-> <<DOT, DOT>>]
    IN  JoinSegs(ups \o SubSeq(b, c + 1, Len(b)))

\* the fields of a response the handlers fill in; unused ones stay empty
Resp(status, message) ==
    [status |-> status, message |-> message, path |-> EMPTY, name |-> EMPTY,
     data |-> NoData, entries |-> {}, errPath |-> EMPTY, header |-> EMPTY,
     files |-> << >>, parent |-> [null |-> TRUE, path |-> EMPTY], totals |-> << >>,
     logged |-> {}, flags |-> {}]

\* what one handler turn does: the tree it leaves, its response, and the
\* absolute paths it handed to a filesystem call
Result(f, resp, touched) == [fs |-> f, resp |-> resp, acc |-> touched]

\* the security check of the handlers that take a target path:
\* fullPath.startsWith(uploadDir)
PathCheck(fullPath) == StartsWith(fullPath, uploadDir)

\* the security check of the listing handler:
\* normalizedBasePath.startsWith('..') || path.isAbsolute(normalizedBasePath)
\* the check of the listing route without its test for a leading ..
ListRejectsAbsoluteOnly(basePath) ==
    IsAbsolute(Normalize(basePath))

ListRejects(basePath) ==
    LET normalizedBasePath == Normalize(basePath)
    IN  StartsWith(normalizedBasePath, <<DOT, DOT>>) \/ IsAbsolute(normalizedBasePath)

\* the 500 response of a catch block: error.message of a filesystem exception
\* quotes the absolute path the call was given
ErrorResp(p) == [Resp(500, "error.message") EXCEPT !.errPath = p]

\* DeleteFile without the check for children
DeleteFileUnguarded(f, filePath) ==
    IF filePath = EMPTY
    THEN Result(f, Resp(400, "File path is required"), {})
    ELSE LET fullPath == Join2(uploadDir, filePath)
         IN  IF ~PathCheck(fullPath)
             THEN Result(f, Resp(400, "Invalid path"), {})
             ELSE IF ~ExistsSync(f, fullPath)
             THEN Result(f, Resp(404, "File/folder not found"), {fullPath})
             ELSE Result(Restrict(f, {q \in DOMAIN f : ~Under(StripTrailing(fullPath), q)}),
                         [Resp(200, "Deleted successfully") EXCEPT !.path = filePath],
                         {fullPath})

(***************************************************************************)
(* DELETE /api/delete                                                      *)
(***************************************************************************)
DeleteFile(f, filePath) ==
    IF filePath = EMPTY
    THEN Result(f, Resp(400, "File path is required"), {})
    ELSE LET fullPath == Join2(uploadDir, filePath)
         IN  IF ~PathCheck(fullPath)
             THEN Result(f, Resp(400, "Invalid path"), {})
             ELSE IF ~ExistsSync(f, fullPath)
             THEN Result(f, Resp(404, "File/folder not found"), {fullPath})
             ELSE IF IsDirectory(f, fullPath) /\ ReaddirSync(f, fullPath) # {}
             THEN Result(f, Resp(400, "Folder is not empty. Delete contents first or use force delete."),
                         {fullPath})
             ELSE Result(RemoveSync(f, fullPath),
                         [Resp(200, "Deleted successfully") EXCEPT !.path = filePath],
                         {fullPath})

(***************************************************************************)
(* DELETE /api/delete-force                                                *)
(***************************************************************************)
DeleteForce(f, filePath) ==
    IF filePath = EMPTY
    THEN Result(f, Resp(400, "File path is required"), {})
    ELSE LET fullPath == Join2(uploadDir, filePath)
         IN  IF ~PathCheck(fullPath)
             THEN Result(f, Resp(400, "Invalid path"), {})
             ELSE IF ~ExistsSync(f, fullPath)
             THEN Result(f, Resp(404, "File/folder not found"), {fullPath})
             ELSE Result(RemoveSync(f, fullPath),
                         [Resp(200, "Deleted successfully") EXCEPT !.path = filePath],
                         {fullPath})

\* RenameEntry without the check that the target is free
RenameEntryOverwriting(f, oldPath, newName) ==
    IF oldPath = EMPTY \/ newName = EMPTY \/ Trim(newName) = EMPTY
    THEN Result(f, Resp(400, "Old path and new name are required"), {})
    ELSE LET sanitizedNewName == Trim(Sanitize(newName))
             oldFullPath == Join2(uploadDir, oldPath)
             newFullPath == Join2(Dirname(oldFullPath), sanitizedNewName)
         IN  IF ~PathCheck(oldFullPath) \/ ~PathCheck(newFullPath)
             THEN Result(f, Resp(400, "Invalid path"), {})
             ELSE IF ~ExistsSync(f, oldFullPath)
             THEN Result(f, Resp(404, "File/folder not found"), {oldFullPath})
             ELSE Result([q \in (DOMAIN f \ {StripTrailing(oldFullPath)}) \cup {newFullPath} |->
                             IF q = newFullPath THEN f[StripTrailing(oldFullPath)] ELSE f[q]],
                         [Resp(200, "Renamed successfully") EXCEPT
                             !.path = Relative(uploadDir, newFullPath),
                             !.name = sanitizedNewName],
                         {oldFullPath, newFullPath})

(***************************************************************************)
(* PUT /api/rename                                                         *)
(***************************************************************************)
RenameEntry(f, oldPath, newName) ==
    IF oldPath = EMPTY \/ newName = EMPTY \/ Trim(newName) = EMPTY
    THEN Result(f, Resp(400, "Old path and new name are required"), {})
    ELSE LET sanitizedNewName == Trim(Sanitize(newName))
             oldFullPath == Join2(uploadDir, oldPath)
             newFullPath == Join2(Dirname(oldFullPath), sanitizedNewName)
         IN  IF sanitizedNewName = EMPTY
             THEN Result(f, Resp(400, "Invalid new name"), {})
             ELSE IF ~PathCheck(oldFullPath) \/ ~PathCheck(newFullPath)
             THEN Result(f, Resp(400, "Invalid path"), {})
             ELSE IF ~ExistsSync(f, oldFullPath)
             THEN Result(f, Resp(404, "File/folder not found"), {oldFullPath})
             ELSE IF ExistsSync(f, newFullPath)
             THEN Result(f, Resp(409, "A file/folder with the new name already exists"),
                         {oldFullPath, newFullPath})
             ELSE Result(RenameSync(f, oldFullPath, newFullPath),
                         [Resp(200, "Renamed successfully") EXCEPT
                             !.path = Relative(uploadDir, newFullPath),
                             !.name = sanitizedNewName],
                         {oldFullPath, newFullPath})

\* CreateFolder taking the next free name instead of refusing a duplicate
CreateFolderRenaming(f, folderName, currentPath) ==
    IF folderName = EMPTY \/ Trim(folderName) = EMPTY
    THEN Result(f, Resp(400, "Folder name is required"), {})
    ELSE LET sanitizedName == Trim(Sanitize(folderName))
             parent == Join2(uploadDir, currentPath)
             RECURSIVE Free(_, _)
             Free(candidate, counter) ==
                 IF ExistsSync(f, Join2(parent, candidate))
                 THEN Free(Suffixed(sanitizedName, counter, EMPTY), counter + 1)
                 ELSE candidate
             finalName == Free(sanitizedName, 1)
             folderPath == Join2(parent, finalName)
             made == [q \in DOMAIN f \cup Ancestors(folderPath) |->
                         IF q \in DOMAIN f THEN f[q] ELSE DirEntry]
         IN  IF \E q \in Ancestors(folderPath) : q \in DOMAIN f /\ ~f[q].dir
             THEN Result(f, [Resp(500, "error.message") EXCEPT !.errPath = folderPath], {folderPath})
             ELSE Result(made,
                         [Resp(200, "Folder created successfully") EXCEPT
                             !.name = finalName,
                             !.path = Relative(uploadDir, folderPath)],
                         {folderPath})

(***************************************************************************)
(* POST /api/folder                                                        *)
(***************************************************************************)
CreateFolder(f, folderName, currentPath) ==
    IF folderName = EMPTY \/ Trim(folderName) = EMPTY
    THEN Result(f, Resp(400, "Folder name is required"), {})
    ELSE LET sanitizedName == Trim(Sanitize(folderName))
             folderPath == Join3(uploadDir, currentPath, sanitizedName)
         IN  IF sanitizedName = EMPTY
             THEN Result(f, Resp(400, "Invalid folder name"), {})
             ELSE IF ExistsSync(f, folderPath)
             THEN Result(f, Resp(409, "Folder already exists"), {folderPath})
             ELSE IF EnsureDirThrows(f, folderPath)
             THEN Result(f, ErrorResp(folderPath), {folderPath})
             ELSE Result(EnsureDirSync(f, folderPath),
                         [Resp(200, "Folder created successfully") EXCEPT
                             !.name = sanitizedName,
                             !.path = Relative(uploadDir, folderPath)],
                         {folderPath})

(***************************************************************************)
(* GET /api/files                                                          *)
(***************************************************************************)
\* getParentPath: null for the root, else the dirname of the normalized path
\* ('.' becomes '')
GetParentPath(currentPath) ==
    IF currentPath = EMPTY THEN [null |-> TRUE, path |-> EMPTY]
    ELSE LET parent == Dirname(Normalize(currentPath))
         IN  [null |-> FALSE, path |-> IF parent = <<DOT>> THEN EMPTY ELSE parent]

\* one row of a listing
Row(f, basePath, fullPath, item) ==
    LET itemPath == Join2(fullPath, item)
    IN  [name |-> item,
         path |-> Join2(basePath, item),
         isDirectory |-> f[itemPath].dir,
         size |-> IF f[itemPath].dir THEN 0 ELSE Len(f[itemPath].data)]

\* localeCompare with sensitivity 'base': letters compare without their case,
\* and characters stand in the order of the collation
UpperCase == <<"A", "B", "C", "D", "E", "F", "G", "H", "I", "J", "K", "L", "M", "N", "O", "P", "Q", "R", "S", "T", "U", "V", "W", "X", "Y", "Z">>

LowerCase == <<"a", "b", "c", "d", "e", "f", "g", "h", "i", "j", "k", "l", "m", "n", "o", "p", "q", "r", "s", "t", "u", "v", "w", "x", "y", "z">>

Fold(c) ==
    IF \E i \in 1..Len(UpperCase) : UpperCase[i] = c
    THEN LowerCase[CHOOSE i \in 1..Len(UpperCase) : UpperCase[i] = c]
    ELSE c

CollationOrder ==
    <<" ", "_", "-", ",", ";", ":", "!", "?", ".", "(", ")", "[", "]", "{", "}", "*", "/",
      "&", "#", "%", "^", "+", "<", "=", ">", "|", "~", "$",
      "0", "1", "2", "3", "4", "5", "6", "7", "8", "9">> \o LowerCase

Rank(c) == CHOOSE i \in 1..Len(CollationOrder) : CollationOrder[i] = Fold(c)

\* negative, zero or positive as a sorts before, with or after b
RECURSIVE LocaleCompare(_, _)
LocaleCompare(a, b) ==
    IF a = EMPTY /\ b = EMPTY THEN 0
    ELSE IF a = EMPTY THEN -1
    ELSE IF b = EMPTY THEN 1
    ELSE IF Rank(Head(a)) < Rank(Head(b)) THEN -1
    ELSE IF Rank(Head(a)) > Rank(Head(b)) THEN 1
    ELSE LocaleCompare(Tail(a), Tail(b))

\* the comparator without its two tests for directories
CompareRowsByName(a, b) == LocaleCompare(a.name, b.name)

\* the comparator of result.sort
CompareRows(a, b) ==
    IF a.isDirectory /\ ~b.isDirectory THEN -1
    ELSE IF ~a.isDirectory /\ b.isDirectory THEN 1
    ELSE LocaleCompare(a.name, b.name)

\* Array.prototype.sort is stable: a row goes behind the rows it does not
\* sort before
RECURSIVE InsertRow(_, _)
InsertRow(row, sorted) ==
    IF sorted = << >> THEN <<row>>
    ELSE IF CompareRows(row, Head(sorted)) < 0 THEN <<row>> \o sorted
    ELSE <<Head(sorted)>> \o InsertRow(row, Tail(sorted))

RECURSIVE SortRows(_)
SortRows(rows) ==
    IF rows = << >> THEN << >>
    ELSE InsertRow(rows[Len(rows)], SortRows(SubSeq(rows, 1, Len(rows) - 1)))

\* items.map(...).filter(item => item !== null): a row for each item whose
\* stat succeeds, in the order readdirSync gave
RECURSIVE Rows(_, _, _, _, _)
Rows(f, basePath, fullPath, items, broken) ==
    IF items = << >> THEN << >>
    ELSE (IF Head(items) \in broken THEN << >>
          ELSE <<Row(f, basePath, fullPath, Head(items))>>)
         \o Rows(f, basePath, fullPath, Tail(items), broken)

RECURSIVE TotalSize(_)
TotalSize(rows) == IF rows = << >> THEN 0 ELSE Head(rows).size + TotalSize(Tail(rows))

\* items: the children in the order readdirSync returns them; broken: the
\* children whose statSync throws
ListFiles(f, basePath, items, broken) ==
    LET fullPath == Join2(uploadDir, basePath)
    IN  IF ListRejects(basePath)
        THEN Result(f, Resp(400, "Invalid path"), {})
        ELSE IF ~ExistsSync(f, fullPath)
        THEN Result(f, [Resp(200, "empty") EXCEPT !.path = basePath,
                                                  !.parent = GetParentPath(basePath)],
                    {fullPath})
        ELSE IF ~IsDirectory(f, fullPath)
        THEN Result(f, Resp(400, "Path is not a directory"), {fullPath})
        ELSE LET result == SortRows(Rows(f, basePath, fullPath, items, broken))
             IN  Result(f,
                        [Resp(200, "listing") EXCEPT
                            !.path = basePath,
                            !.files = result,
                            !.parent = GetParentPath(basePath),
                            !.totals = <<Len(result), TotalSize(result)>>,
                            !.logged = {Join2(fullPath, item) : item \in broken}],
                        {fullPath} \cup {Join2(fullPath, item) : item \in ReaddirSync(f, fullPath)})

(***************************************************************************)
(* encodeURIComponent and the Content-Disposition header                   *)
(***************************************************************************)
HexDigits == <<"0", "1", "2", "3", "4", "5", "6", "7", "8", "9", "A", "B", "C", "D", "E", "F">>

\* the characters of file names that encodeURIComponent escapes, with their
\* UTF-8 code; letters, digits and - _ . ! ~ * ' ( ) pass unescaped
EscapedCode ==
    [c \in {" ", "%", "/", "\"", "?", ":"} |->
        CASE c = " " -> 32 [] c = "%" -> 37 [] c = "/" -> 47
          [] c = "\"" -> 34 [] c = "?" -> 63 [] c = ":" -> 58]

RECURSIVE EncodeURIComponent(_)
EncodeURIComponent(s) ==
    IF s = EMPTY THEN EMPTY
    ELSE LET c == Head(s)
         IN  (IF c \in DOMAIN EscapedCode
              THEN <<"%", HexDigits[(EscapedCode[c] \div 16) + 1],
                          HexDigits[(EscapedCode[c] % 16) + 1]>>
              ELSE <<c>>) \o EncodeURIComponent(Tail(s))

HexValue(h) == (CHOOSE i \in 1..16 : HexDigits[i] = h) - 1

RECURSIVE DecodeURIComponent(_)
DecodeURIComponent(s) ==
    IF s = EMPTY THEN EMPTY
    ELSE IF Head(s) = "%" /\ Len(s) >= 3
    THEN LET code == 16 * HexValue(s[2]) + HexValue(s[3])
         IN  <<CHOOSE c \in DOMAIN EscapedCode : EscapedCode[c] = code>>
                 \o DecodeURIComponent(SubSeq(s, 4, Len(s)))
    ELSE <<Head(s)>> \o DecodeURIComponent(Tail(s))

\* `attachment; filename="${encodeURIComponent(filename)}"`
Disposition(filename) ==
    <<"a", "t", "t", "a", "c", "h", "m", "e", "n", "t", ";", " ", "f", "i", "l", "e", "n", "a", "m", "e", "=", "\"">> \o EncodeURIComponent(filename) \o <<"\"">>

\* the filename value of a disposition header: the text between its quotes
FilenameValue(header) ==
    LET quotes == {i \in 1..Len(header) : header[i] = "\""}
    IN  IF Cardinality(quotes) < 2 THEN EMPTY
        ELSE LET first == CHOOSE i \in quotes : \A j \in quotes : i <= j
                 last == CHOOSE i \in quotes : \A j \in quotes : i >= j
             IN  SubSeq(header, first + 1, last - 1)

(***************************************************************************)
(* GET /api/download                                                       *)
(***************************************************************************)
DownloadFile(f, filePath) ==
    IF filePath = EMPTY
    THEN Result(f, Resp(400, "File path is required"), {})
    ELSE LET fullPath == Join2(uploadDir, filePath)
         IN  IF ~PathCheck(fullPath)
             THEN Result(f, Resp(400, "Invalid path"), {})
             ELSE IF ~ExistsSync(f, fullPath)
             THEN Result(f, Resp(404, "File not found"), {fullPath})
             ELSE IF IsDirectory(f, fullPath)
             THEN Result(f, Resp(400, "Cannot download folder directly. Use /api/download-folder instead."),
                         {fullPath})
             ELSE Result(f,
                         [Resp(200, "attachment") EXCEPT
                             !.header = Disposition(Basename(fullPath)),
                             !.data = f[fullPath].data],
                         {fullPath})

(***************************************************************************)
(* GET /api/download-folder                                                *)
(***************************************************************************)
\* archive.directory(fullPath, folderName): every entry below the folder,
\* under the folder's base name
\* a walk that matches files only
DirectoryMatchesFilesOnly(f, fullPath) ==
    LET d == StripTrailing(fullPath)
    IN  {x \in DOMAIN f : x # d /\ Under(d, x) /\ ~f[x].dir}

\* the paths archive.directory walks: everything below the folder, files and
\* directories
DirectoryMatches(f, fullPath) ==
    LET d == StripTrailing(fullPath)
    IN  {x \in DOMAIN f : x # d /\ Under(d, x)}

\* the archive entry of the path q below the folder d
ArchiveEntry(f, d, folderName, q) ==
    [name |-> Join2(folderName, Relative(d, q)),
     isDirectory |-> f[q].dir,
     data |-> f[q].data]

ArchiveEntries(f, fullPath, folderName) ==
    {ArchiveEntry(f, StripTrailing(fullPath), folderName, q) : q \in DirectoryMatches(f, fullPath)}

DownloadFolder(f, folderPath) ==
    IF folderPath = EMPTY
    THEN Result(f, Resp(400, "Folder path is required"), {})
    ELSE LET fullPath == Join2(uploadDir, folderPath)
             folderName == IF Basename(fullPath) = EMPTY
                           THEN <<"d", "o", "w", "n", "l", "o", "a", "d">>
                           ELSE Basename(fullPath)
         IN  IF ~PathCheck(fullPath)
             THEN Result(f, Resp(400, "Invalid path"), {})
             ELSE IF ~ExistsSync(f, fullPath) \/ ~IsDirectory(f, fullPath)
             THEN Result(f, Resp(404, "Folder not found"), {fullPath})
             ELSE Result(f,
                         [Resp(200, "application/zip") EXCEPT
                             !.header = Disposition(folderName \o <<".", "z", "i", "p">>),
                             !.entries = ArchiveEntries(f, fullPath, folderName)],
                         {q \in DOMAIN f : Under(StripTrailing(fullPath), q)})

(***************************************************************************)
(* GET /api/file-info                                                      *)
(***************************************************************************)
FileInfo(f, filePath) ==
    IF filePath = EMPTY
    THEN Result(f, Resp(400, "File path is required"), {})
    ELSE LET fullPath == Join2(uploadDir, filePath)
         IN  IF ~PathCheck(fullPath)
             THEN Result(f, Resp(400, "Invalid path"), {})
             ELSE IF ~ExistsSync(f, fullPath)
             THEN Result(f, Resp(404, "File/folder not found"), {fullPath})
             ELSE IF ~IsDirectory(f, fullPath)
             THEN Result(f,
                         [Resp(200, "info") EXCEPT
                             !.name = Basename(fullPath),
                             !.path = filePath,
                             !.data = f[fullPath].data],
                         {fullPath})
             ELSE Result(f,
                         [Resp(200, "info") EXCEPT
                             !.name = Basename(fullPath),
                             !.path = filePath,
                             !.entries = {[name |-> item,
                                           isDirectory |-> f[Join2(fullPath, item)].dir] :
                                             item \in ReaddirSync(f, fullPath)}],
                         {fullPath} \cup {Join2(fullPath, item) : item \in ReaddirSync(f, fullPath)})

(***************************************************************************)
(* GET /health                                                             *)
(***************************************************************************)
\* the report carries uploadDir as it is; the probe writes .healthcheck into
\* the storage root and unlinks it
Health(f) ==
    LET testFile == Join2(uploadDir, <<".", "h", "e", "a", "l", "t", "h", "c", "h", "e", "c", "k">>)
        writable == ~WriteThrows(f, testFile)
    IN  Result(IF writable THEN Restrict(f, DOMAIN f \ {testFile}) ELSE f,
               [Resp(200, "OK") EXCEPT
                   !.path = uploadDir,
                   !.flags = (IF ExistsSync(f, uploadDir) THEN {"exists"} ELSE {})
                                \cup (IF writable THEN {"writable"} ELSE {})],
               {uploadDir, testFile})

(***************************************************************************)
(* Name allocation                                                         *)
(***************************************************************************)
\* while (fs.existsSync(path.join(dir, filename)))
\*     { filename = `${name} (${counter})${ext}`; counter++ }
RECURSIVE Probe(_, _, _, _, _, _)
Probe(f, dir, name, ext, filename, counter) ==
    IF ExistsSync(f, Join2(dir, filename))
    THEN Probe(f, dir, name, ext, Suffixed(name, counter, ext), counter + 1)
    ELSE filename

\* multer filename callback: the stem is sanitized, the extension is not
UploadFilename(f, fullPath, originalname) ==
    LET originalName == ParseName(originalname)
        ext == ParseExt(originalname)
        sanitizedOriginalName == Sanitize(originalName)
    IN  Probe(f, fullPath, sanitizedOriginalName, ext, sanitizedOriginalName \o ext, 1)

\* the nested file's sanitized name taken as it is, without the loop
NestedFileNameUnchecked(f, targetPath, fileName) == Sanitize(fileName)

\* processFolderContents, a file: stem and extension of the sanitized name
NestedFileName(f, targetPath, fileName) ==
    LET sanitizedName == Sanitize(fileName)
    IN  Probe(f, targetPath, ParseName(sanitizedName), ParseExt(sanitizedName), sanitizedName, 1)

\* processFolderContents, a subfolder: the suffix goes after the whole name
NestedFolderName(f, targetPath, folderName) ==
    LET sanitizedName == Sanitize(folderName)
    IN  Probe(f, targetPath, sanitizedName, EMPTY, sanitizedName, 1)

(***************************************************************************)
(* Buffer.from(content, 'base64')                                          *)
(***************************************************************************)
Base64Alphabet ==
    <<"A", "B", "C", "D", "E", "F", "G", "H", "I", "J", "K", "L", "M", "N", "O", "P",
      "Q", "R", "S", "T", "U", "V", "W", "X", "Y", "Z", "a", "b", "c", "d", "e", "f",
      "g", "h", "i", "j", "k", "l", "m", "n", "o", "p", "q", "r", "s", "t", "u", "v",
      "w", "x", "y", "z", "0", "1", "2", "3", "4", "5", "6", "7", "8", "9", "+", "/">>

Base64Value(c) == (CHOOSE i \in 1..64 : Base64Alphabet[i] = c) - 1

\* the sextets of the text before the padding
RECURSIVE Sextets(_)
Sextets(text) ==
    IF text = EMPTY \/ Head(text) = "=" THEN << >>
    ELSE IF \E i \in 1..64 : Base64Alphabet[i] = Head(text)
         THEN <<Base64Value(Head(text))>> \o Sextets(Tail(text))
         ELSE Sextets(Tail(text))

\* four sextets give three bytes, three give two, two give one
RECURSIVE Octets(_)
Octets(v) ==
    IF Len(v) < 2 THEN << >>
    ELSE LET b1 == v[1] * 4 + v[2] \div 16
         IN  IF Len(v) = 2 THEN <<b1>>
             ELSE LET b2 == (v[2] % 16) * 16 + v[3] \div 4
                  IN  IF Len(v) = 3 THEN <<b1, b2>>
                      ELSE <<b1, b2, (v[3] % 4) * 64 + v[4]>> \o Octets(SubSeq(v, 5, Len(v)))

Base64Decode(content) == Octets(Sextets(content))

(***************************************************************************)
(* POST /api/upload-folder: processFolderContents                          *)
(*                                                                         *)
(* The only point where the function yields to other requests is           *)
(* `await fs.writeFile`. Process runs the code from one such point to the  *)
(* next: `stack` is the chain of processFolderContents activations, each   *)
(* with its descriptor, its target directory and its position in the two   *)
(* loops. `fault` says that the device refuses to make directories during  *)
(* this turn.                                                              *)
(***************************************************************************)
Frame(d, target) == [d |-> d, target |-> target, phase |-> "files", i |-> 1]

\* the items the loops act on: files with a name and content, folders with a name
RECURSIVE Eligible(_)
Eligible(d) ==
    LET fileCount == Cardinality({i \in 1..Len(d.files) :
                        d.files[i].name # EMPTY /\ d.files[i].content # EMPTY})
        named == {i \in 1..Len(d.folders) : d.folders[i].name # EMPTY}
        RECURSIVE Sum(_)
        Sum(S) == IF S = {} THEN 0
                  ELSE LET i == CHOOSE x \in S : TRUE
                       IN  1 + Eligible(d.folders[i]) + Sum(S \ {i})
    IN  fileCount + Sum(named)

\* what a folder upload went through: items the loops took up, items whose
\* write or mkdir failed, items lying inside a subfolder that could not be made
Tally(attempted, failed, skipped) ==
    [attempted |-> attempted, failed |-> failed, skipped |-> skipped]

\* one run of a duplicate-name loop: the directory, the name asked for, the
\* name chosen, and the directory's children at that moment
Allocation(f, kind, dir, want, got) ==
    [kind |-> kind, dir |-> dir, want |-> want, got |-> got, siblings |-> ReaddirSync(f, dir)]

\* the per-item catch block of the subfolder loop: log, go on with the next
SubfolderFailed(tl, subfolder) ==
    [tl EXCEPT !.attempted = @ + 1, !.failed = @ + 1, !.skipped = @ + Eligible(subfolder)]

RECURSIVE Process(_, _, _, _, _, _)
Process(f, stack, tl, touched, allocated, fault) ==
    IF stack = << >>
    THEN [fs |-> f, stack |-> stack, writing |-> FALSE, wpath |-> EMPTY, wdata |-> NoData,
          tally |-> tl, acc |-> touched, allocs |-> allocated]
    ELSE LET fr == stack[Len(stack)]
             rest == SubSeq(stack, 1, Len(stack) - 1)
             next == Append(rest, [fr EXCEPT !.i = @ + 1])
         IN  IF fr.phase = "files"
             THEN IF fr.i > Len(fr.d.files)
                  THEN Process(f, Append(rest, [fr EXCEPT !.phase = "folders", !.i = 1]),
                               tl, touched, allocated, fault)
                  ELSE LET file == fr.d.files[fr.i]
                       IN  IF file.name # EMPTY /\ file.content # EMPTY
                           THEN LET finalName == NestedFileName(f, fr.target, file.name)
                                    finalPath == Join2(fr.target, finalName)
                                IN  [fs |-> f, stack |-> next, writing |-> TRUE,
                                     wpath |-> finalPath,
                                     wdata |-> Base64Decode(file.content),
                                     tally |-> [tl EXCEPT !.attempted = @ + 1],
                                     acc |-> touched \cup {finalPath},
                                     allocs |-> Append(allocated,
                                         Allocation(f, "file", fr.target, file.name, finalName))]
                           ELSE Process(f, next, tl, touched, allocated, fault)
             ELSE IF fr.i > Len(fr.d.folders)
                  THEN Process(f, rest, tl, touched, allocated, fault)
                  ELSE LET subfolder == fr.d.folders[fr.i]
                       IN  IF subfolder.name # EMPTY
                           THEN LET finalFolderName == NestedFolderName(f, fr.target, subfolder.name)
                                    finalFolderPath == Join2(fr.target, finalFolderName)
                                    logged == Append(allocated,
                                        Allocation(f, "folder", fr.target, subfolder.name, finalFolderName))
                                IN  IF fault \/ EnsureDirThrows(f, finalFolderPath)
                                    THEN Process(f, next, SubfolderFailed(tl, subfolder),
                                                 touched \cup {finalFolderPath}, logged, fault)
                                    ELSE Process(EnsureDirSync(f, finalFolderPath),
                                                 Append(next, Frame(subfolder, finalFolderPath)),
                                                 [tl EXCEPT !.attempted = @ + 1],
                                                 touched \cup {finalFolderPath}, logged, fault)
                           ELSE Process(f, next, tl, touched, allocated, fault)

(***************************************************************************)
(* POST /api/upload-folder: the handler up to its first await              *)
(***************************************************************************)
Pending == Resp(0, "pending")

\* the handler without its test for an existing target: the upload merges
UploadFolderMerging(f, folderData, currentPath, fault) ==
    IF folderData.name = EMPTY
    THEN [started |-> FALSE, r |-> Result(f, Resp(400, "Invalid folder data"), {})]
    ELSE LET sanitizedName == Sanitize(folderData.name)
             targetPath == Join3(uploadDir, currentPath, sanitizedName)
         IN  IF fault \/ EnsureDirThrows(f, targetPath)
             THEN [started |-> FALSE, r |-> Result(f, ErrorResp(targetPath), {targetPath})]
             ELSE [started |-> TRUE,
                   targetPath |-> targetPath,
                   sanitizedName |-> sanitizedName,
                   pr |-> Process(EnsureDirSync(f, targetPath),
                                  <<Frame(folderData, targetPath)>>, Tally(0, 0, 0),
                                  {targetPath}, << >>, fault)]

UploadFolder(f, folderData, currentPath, fault) ==
    IF folderData.name = EMPTY
    THEN [started |-> FALSE, r |-> Result(f, Resp(400, "Invalid folder data"), {})]
    ELSE LET sanitizedName == Sanitize(folderData.name)
             targetPath == Join3(uploadDir, currentPath, sanitizedName)
         IN  IF ExistsSync(f, targetPath)
             THEN [started |-> FALSE,
                   r |-> Result(f, Resp(409, "Folder already exists"), {targetPath})]
             ELSE IF fault \/ EnsureDirThrows(f, targetPath)
             THEN [started |-> FALSE, r |-> Result(f, ErrorResp(targetPath), {targetPath})]
             ELSE [started |-> TRUE,
                   targetPath |-> targetPath,
                   sanitizedName |-> sanitizedName,
                   pr |-> Process(EnsureDirSync(f, targetPath),
                                  <<Frame(folderData, targetPath)>>, Tally(0, 0, 0),
                                  {targetPath}, << >>, fault)]

\* res.json({ success: true, path: path.relative(uploadDir, targetPath), name })
FolderUploaded(targetPath, sanitizedName) ==
    [Resp(200, "Folder uploaded successfully") EXCEPT
        !.path = Relative(uploadDir, targetPath),
        !.name = sanitizedName]

(***************************************************************************)
(* POST /api/upload: multer's disk storage                                 *)
(***************************************************************************)
\* the destination callback, then the filename callback
UploadBegin(f, currentPath, originalname) ==
    LET fullPath == Join2(uploadDir, currentPath)
    IN  IF EnsureDirThrows(f, fullPath)
        THEN [started |-> FALSE, r |-> Result(f, ErrorResp(fullPath), {fullPath})]
        ELSE LET made == EnsureDirSync(f, fullPath)
                 filename == UploadFilename(made, fullPath, originalname)
             IN  [started |-> TRUE, fs |-> made, filename |-> filename,
                  wpath |-> Join2(fullPath, filename),
                  acc |-> {fullPath, Join2(fullPath, filename)},
                  allocs |-> <<Allocation(made, "upload", fullPath, originalname, filename)>>]

\* the route handler's response for the stored file
Uploaded(filename, filePath) ==
    [Resp(200, "1 file(s) uploaded successfully") EXCEPT
        !.name = filename,
        !.path = Relative(uploadDir, filePath)]

(***************************************************************************)
(* The inputs requests are drawn from                                      *)
(***************************************************************************)
Docs == <<"D", "o", "c", "s">>
report == <<"r", "e", "p", "o", "r", "t", ".", "t", "x", "t">>

\* targets inside the storage root
TreePaths == { Docs, <<"D", "o", "c", "s", "/", "r", "e", "p", "o", "r", "t", ".", "t", "x", "t">>, report }

\* targets that leave the storage root, and one that stays inside
EscapePaths == { <<".", ".">>, <<".", ".", "/", "u", "x">>, <<".", ".", "/", "u", "x", "/", "k">>, <<"D", "o", "c", "s", "/", ".", ".", "/", ".", ".", "/", "e">>, Docs }

\* listing paths: relative escapes, an absolute path, a name that only begins
\* with two dots, and paths that stay inside
ListPaths == { <<".", ".">>, <<"D", "o", "c", "s", "/", ".", ".", "/", ".", ".", "/", "u", "x">>, <<"/", "u", "x">>, <<".", ".", "x">>, Docs, EMPTY }

\* the directory a create-folder request names
FolderParents == { EMPTY, report }

\* the directory an upload names
UploadParents == { EMPTY, Docs }

\* creating requests that name a directory outside the storage root
EscapeParents == { <<".", ".">>, <<".", ".", "/", "u", "x">> }

FolderNames == { <<" ">>, Docs, <<" ", "a", ":">> }

NewNames == { <<"b", "?">>, report }

UploadNames == { report }

UploadBytes == { <<65>> }

B64_A == <<"Q", "Q", "=", "=">>
B64_B == <<"Q", "g", "=", "=">>

File(name, content) == [name |-> name, content |-> content]
Folder(name, files, folders) == [name |-> name, files |-> files, folders |-> folders]

NoFolder == Folder(EMPTY, << >>, << >>)

\* folder uploads: without a name, empty, with a repeated file name, and with
\* repeated subfolder names, a file without content and a file named `..`
FolderInputs ==
    { NoFolder,
      Folder(Docs, << >>, << >>),
      Folder(<<"d">>, <<File(report, B64_A), File(report, B64_B), File(report, B64_A)>>, << >>),
      Folder(<<"d">>, <<File(<<"e">>, EMPTY)>>,
             <<Folder(<<"s">>, <<File(<<".", ".">>, B64_A)>>, << >>),
               Folder(<<"s">>, << >>, << >>),
               Folder(<<"s">>, <<File(<<"k">>, B64_B)>>, << >>)>>) }

\* the most entries a descriptor can add to the tree
Size(d) == 1 + Eligible(d)

(***************************************************************************)
(* multer's limits and the order of the middleware stack                   *)
(***************************************************************************)
FileSizeLimit == 100 * 1024 * 1024

FilesLimit == 50

\* the MulterError code of a multipart body, by the limit it exceeds
MulterLimit(count, size) ==
    IF count > FilesLimit THEN "LIMIT_FILE_COUNT"
    ELSE IF size > FileSizeLimit THEN "LIMIT_FILE_SIZE"
    ELSE "none"

\* the layers in the order app.use / app.<method> registers them
Layers ==
    << [name |-> "cors", handlesErrors |-> FALSE],
       [name |-> "express.json", handlesErrors |-> FALSE],
       [name |-> "express.urlencoded", handlesErrors |-> FALSE],
       [name |-> "static public", handlesErrors |-> FALSE],
       [name |-> "static uploads", handlesErrors |-> FALSE],
       [name |-> "error handling middleware", handlesErrors |-> TRUE],
       [name |-> "GET /api/files", handlesErrors |-> FALSE],
       [name |-> "POST /api/upload", handlesErrors |-> FALSE],
       [name |-> "POST /api/upload-folder", handlesErrors |-> FALSE],
       [name |-> "POST /api/folder", handlesErrors |-> FALSE],
       [name |-> "DELETE /api/delete", handlesErrors |-> FALSE],
       [name |-> "DELETE /api/delete-force", handlesErrors |-> FALSE],
       [name |-> "GET /api/download", handlesErrors |-> FALSE],
       [name |-> "GET /api/download-folder", handlesErrors |-> FALSE],
       [name |-> "PUT /api/rename", handlesErrors |-> FALSE],
       [name |-> "GET /api/file-info", handlesErrors |-> FALSE],
       [name |-> "GET /health", handlesErrors |-> FALSE],
       [name |-> "GET *", handlesErrors |-> FALSE],
       [name |-> "404", handlesErrors |-> FALSE] >>

LayerOf(name) == CHOOSE i \in 1..Len(Layers) : Layers[i].name = name

\* app.use((error, req, res, next) => ...)
ErrorMiddleware(code) ==
    IF code = "LIMIT_FILE_SIZE" THEN Resp(400, "File too large. Maximum size is 100MB")
    ELSE IF code = "LIMIT_FILE_COUNT" THEN Resp(400, "Too many files. Maximum is 50 files")
    ELSE Resp(500, "Internal server error")

\* Express's own last handler: the error's status, 500 when it has none
FinalHandler == Resp(500, "Internal Server Error")

\* next(error) called in a layer: Express goes on to the error-handling layers
\* registered after it
NextError(layer, code) ==
    IF \E j \in (layer + 1)..Len(Layers) : Layers[j].handlesErrors
    THEN ErrorMiddleware(code)
    ELSE FinalHandler

(***************************************************************************)
(* State                                                                   *)
(***************************************************************************)
MaxJobs == 2

VARIABLES
    fs,     \* the filesystem tree
    jobs,   \* the requests suspended on a write
    req,    \* the request whose handler ran in the last turn
    resp,   \* the response sent in the last turn (status 0: none yet)
    acc,    \* the paths handed to filesystem calls in the last turn
    tally,  \* the items a folder upload that finished in the last turn went through
    allocs  \* the duplicate-name loops run in the last turn

vars == <<fs, jobs, req, resp, acc, tally, allocs>>

Request(op, path, name) ==
    [op |-> op, path |-> path, name |-> name, desc |-> NoFolder, data |-> NoData,
     count |-> 0, size |-> 0]

Idle ==
    [kind |-> "idle", pc |-> "idle", req |-> Request("none", EMPTY, EMPTY),
     wpath |-> EMPTY, wdata |-> NoData, filename |-> EMPTY,
     stack |-> << >>, targetPath |-> EMPTY, sanitizedName |-> EMPTY,
     tally |-> Tally(0, 0, 0),
     header |-> EMPTY, remaining |-> NoData, body |-> NoData,
     pending |-> {}, sent |-> {}, buffered |-> {},
     headersSent |-> FALSE, errored |-> FALSE, closed |-> FALSE, late |-> 0]

\* fs.ensureDirSync(uploadDir) at startup; the root's neighbours are not the
\* program's
InitialTree ==
    [q \in {ROOT, uploadDir, siblingDir, siblingFile} |->
        IF q = siblingFile THEN FileEntry(<<75>>) ELSE DirEntry]

Init ==
    /\ fs = InitialTree
    /\ jobs = [id \in 1..MaxJobs |-> Idle]
    /\ req = Request("none", EMPTY, EMPTY)
    /\ resp = Pending
    /\ acc = {}
    /\ tally = Tally(0, 0, 0)
    /\ allocs = << >>

\* a synchronous handler: one turn from request to response
Sync(r, rq) ==
    /\ fs' = r.fs
    /\ resp' = r.resp
    /\ acc' = r.acc
    /\ req' = rq
    /\ tally' = Tally(0, 0, 0)
    /\ allocs' = << >>
    /\ UNCHANGED jobs

\* the tree may grow by n entries within the limit
HasRoom(limit, n) == Cardinality(DOMAIN fs) + n <= limit

\* no request is suspended: the client waits for an answer before it asks again
Quiet == \A id \in 1..MaxJobs : jobs[id].kind = "idle"

FreeSlot(id) == jobs[id].kind = "idle" /\ \A other \in 1..(id - 1) : jobs[other].kind # "idle"

\* the orders in which readdirSync may return the names S
RECURSIVE Orders(_)
Orders(S) ==
    IF S = {} THEN {<< >>}
    ELSE UNION {{<<n>> \o rest : rest \in Orders(S \ {n})} : n \in S}

List(P) ==
    \E p \in P :
        LET fullPath == Join2(uploadDir, p)
            names == IF ExistsSync(fs, fullPath) /\ IsDirectory(fs, fullPath)
                     THEN ReaddirSync(fs, fullPath) ELSE {}
        IN  \E items \in Orders(names), broken \in {{}} \cup {{n} : n \in names} :
                Sync(ListFiles(fs, p, items, broken), Request("list", p, EMPTY))

Delete(P) == \E p \in P : Sync(DeleteFile(fs, p), Request("delete", p, EMPTY))

ForceDelete(P) == \E p \in P : Sync(DeleteForce(fs, p), Request("delete-force", p, EMPTY))

Download(P) == \E p \in P : Sync(DownloadFile(fs, p), Request("download", p, EMPTY))

DownloadZip(P) == \E p \in P : Sync(DownloadFolder(fs, p), Request("download-folder", p, EMPTY))

HealthCheck == Sync(Health(fs), Request("health", EMPTY, EMPTY))

Info(P) == \E p \in P : Sync(FileInfo(fs, p), Request("file-info", p, EMPTY))

Rename(P) ==
    \E p \in P, n \in NewNames :
        Sync(RenameEntry(fs, p, n), Request("rename", p, n))

NewFolder(P, N, limit) ==
    \E p \in P, n \in N :
        /\ HasRoom(limit, 1)
        /\ Sync(CreateFolder(fs, n, p), Request("folder", p, n))

UploadStart(P, N, B, limit) ==
    \E id \in 1..MaxJobs, p \in P, n \in N, bytes \in B :
        LET b == UploadBegin(fs, p, n)
            rq == [Request("upload", p, n) EXCEPT !.data = bytes, !.count = 1, !.size = Len(bytes)]
        IN  /\ FreeSlot(id)
            /\ HasRoom(limit, 1)
            /\ req' = rq
            /\ tally' = Tally(0, 0, 0)
            /\ IF b.started
               THEN /\ fs' = b.fs
                    /\ resp' = Pending
                    /\ acc' = b.acc
                    /\ allocs' = b.allocs
                    /\ jobs' = [jobs EXCEPT ![id] =
                                  [Idle EXCEPT !.kind = "upload", !.pc = "writing", !.req = rq,
                                               !.wpath = b.wpath, !.wdata = bytes,
                                               !.filename = b.filename]]
               ELSE /\ fs' = b.r.fs
                    /\ resp' = b.r.resp
                    /\ acc' = b.r.acc
                    /\ allocs' = << >>
                    /\ UNCHANGED jobs

\* the write stream stores the file and the route handler answers
UploadFinish ==
    \E id \in 1..MaxJobs :
        LET job == jobs[id]
        IN  /\ job.kind = "upload"
            /\ job.pc = "writing"
            /\ req' = job.req
            /\ acc' = {job.wpath}
            /\ tally' = Tally(0, 0, 0)
            /\ allocs' = << >>
            /\ jobs' = [jobs EXCEPT ![id] = Idle]
            /\ IF WriteThrows(fs, job.wpath)
               THEN /\ fs' = fs
                    /\ resp' = ErrorResp(job.wpath)
               ELSE /\ fs' = WriteFile(fs, job.wpath, job.wdata)
                    /\ resp' = Uploaded(job.filename, job.wpath)

\* a multipart body over one of multer's limits: the destination callback has
\* run for the files before the limit, multer removes what it stored and
\* passes its MulterError to next
UploadRefused(P) ==
    \E p \in P, n \in UploadNames, count \in {1, FilesLimit + 1}, size \in {1, FileSizeLimit + 1} :
        LET fullPath == Join2(uploadDir, p)
            code == MulterLimit(count, size)
        IN  /\ code # "none"
            /\ Sync(Result(IF EnsureDirThrows(fs, fullPath) THEN fs ELSE EnsureDirSync(fs, fullPath),
                           NextError(LayerOf("POST /api/upload"), code),
                           {fullPath}),
                    [Request("upload", p, n) EXCEPT !.count = count, !.size = size])

\* where a folder upload stands after running to its next await or to its end
Advance(id, job, pr) ==
    IF pr.writing
    THEN /\ jobs' = [jobs EXCEPT ![id] =
                       [job EXCEPT !.pc = "writing", !.wpath = pr.wpath, !.wdata = pr.wdata,
                                   !.stack = pr.stack, !.tally = pr.tally]]
         /\ resp' = Pending
         /\ tally' = Tally(0, 0, 0)
    ELSE /\ jobs' = [jobs EXCEPT ![id] = Idle]
         /\ resp' = FolderUploaded(job.targetPath, job.sanitizedName)
         /\ tally' = pr.tally

FolderStart(P, D, limit) ==
    \E id \in 1..MaxJobs, p \in P, d \in D, fault \in BOOLEAN :
        LET u == UploadFolder(fs, d, p, fault)
            rq == [Request("upload-folder", p, d.name) EXCEPT !.desc = d]
        IN  /\ FreeSlot(id)
            /\ HasRoom(limit, Size(d))
            /\ req' = rq
            /\ IF u.started
               THEN /\ fs' = u.pr.fs
                    /\ acc' = u.pr.acc
                    /\ allocs' = u.pr.allocs
                    /\ Advance(id, [Idle EXCEPT !.kind = "folder", !.req = rq,
                                                !.targetPath = u.targetPath,
                                                !.sanitizedName = u.sanitizedName], u.pr)
               ELSE /\ fs' = u.r.fs
                    /\ resp' = u.r.resp
                    /\ acc' = u.r.acc
                    /\ allocs' = << >>
                    /\ tally' = Tally(0, 0, 0)
                    /\ UNCHANGED jobs

\* a failed write that ends the whole traversal instead of the one file
FolderWriteAborting ==
    \E id \in 1..MaxJobs, ioError \in BOOLEAN :
        LET job == jobs[id]
            fails == ioError \/ WriteThrows(fs, job.wpath)
        IN  /\ job.kind = "folder"
            /\ job.pc = "writing"
            /\ fs' = IF fails THEN fs ELSE WriteFile(fs, job.wpath, job.wdata)
            /\ jobs' = [jobs EXCEPT ![id] =
                          [job EXCEPT !.pc = "written",
                                      !.stack = IF fails THEN << >> ELSE @,
                                      !.tally = IF fails THEN [@ EXCEPT !.failed = @ + 1] ELSE @]]
            /\ req' = job.req
            /\ resp' = Pending
            /\ acc' = {job.wpath}
            /\ tally' = Tally(0, 0, 0)
            /\ allocs' = << >>

\* fs.writeFile completes in the thread pool: the file is stored, or the write
\* fails (its directory is gone, or the device reports an error)
FolderWrite ==
    \E id \in 1..MaxJobs, ioError \in BOOLEAN :
        LET job == jobs[id]
            fails == ioError \/ WriteThrows(fs, job.wpath)
        IN  /\ job.kind = "folder"
            /\ job.pc = "writing"
            /\ fs' = IF fails THEN fs ELSE WriteFile(fs, job.wpath, job.wdata)
            /\ jobs' = [jobs EXCEPT ![id] =
                          [job EXCEPT !.pc = "written",
                                      !.tally = IF fails THEN [@ EXCEPT !.failed = @ + 1] ELSE @]]
            /\ req' = job.req
            /\ resp' = Pending
            /\ acc' = {job.wpath}
            /\ tally' = Tally(0, 0, 0)
            /\ allocs' = << >>

\* the await returns: the loops run on to the next write or to the response
FolderResume ==
    \E id \in 1..MaxJobs, fault \in BOOLEAN :
        LET job == jobs[id]
            pr == Process(fs, job.stack, job.tally, {}, << >>, fault)
        IN  /\ job.kind = "folder"
            /\ job.pc = "written"
            /\ fs' = pr.fs
            /\ acc' = pr.acc
            /\ allocs' = pr.allocs
            /\ req' = job.req
            /\ Advance(id, job, pr)

(***************************************************************************)
(* Streamed responses: fileStream.pipe(res) and archive.pipe(res)          *)
(***************************************************************************)
\* what a turn reports besides the tree and the suspended requests
Turn(rq, rs, touched) ==
    /\ req' = rq
    /\ resp' = rs
    /\ acc' = touched
    /\ tally' = Tally(0, 0, 0)
    /\ allocs' = << >>

\* GET /api/download up to fileStream.pipe(res): the checks answer at once,
\* otherwise the headers are set and the read stream is created
StreamStart(P) ==
    \E id \in 1..MaxJobs, p \in P :
        LET r == DownloadFile(fs, p)
            rq == Request("download", p, EMPTY)
        IN  /\ FreeSlot(id)
            /\ fs' = fs
            /\ IF r.resp.status = 200
               THEN /\ jobs' = [jobs EXCEPT ![id] =
                                  [Idle EXCEPT !.kind = "download", !.pc = "streaming", !.req = rq,
                                               !.header = r.resp.header,
                                               !.remaining = r.resp.data]]
                    /\ Turn(rq, Pending, r.acc)
               ELSE /\ UNCHANGED jobs
                    /\ Turn(rq, r.resp, r.acc)

\* the read stream's next chunk is written to the response; the first write
\* sends the headers
StreamChunk ==
    \E id \in 1..MaxJobs :
        LET job == jobs[id]
        IN  /\ job.kind = "download"
            /\ job.pc = "streaming"
            /\ ~job.closed
            /\ job.remaining # NoData
            /\ fs' = fs
            /\ jobs' = [jobs EXCEPT ![id] =
                          [job EXCEPT !.remaining = Tail(@),
                                      !.body = Append(@, Head(job.remaining)),
                                      !.headersSent = TRUE]]
            /\ Turn(job.req, Pending, {})

\* the read stream ends and the pipe ends the response
StreamEnd ==
    \E id \in 1..MaxJobs :
        LET job == jobs[id]
        IN  /\ job.kind = "download"
            /\ job.pc = "streaming"
            /\ ~job.closed
            /\ job.remaining = NoData
            /\ fs' = fs
            /\ jobs' = [jobs EXCEPT ![id] = Idle]
            /\ Turn(job.req,
                    [Resp(200, "attachment") EXCEPT !.header = job.header, !.data = job.body],
                    {})

\* fileStream.on('error'): the error is logged; a 500 is sent when the headers
\* are not out yet, and nothing else is done when they are
StreamError ==
    \E id \in 1..MaxJobs :
        LET job == jobs[id]
        IN  /\ job.kind = "download"
            /\ job.pc = "streaming"
            /\ ~job.closed
            /\ fs' = fs
            /\ IF job.headersSent
               THEN /\ jobs' = [jobs EXCEPT ![id] = [job EXCEPT !.pc = "open", !.errored = TRUE]]
                    /\ Turn(job.req, Pending, {})
               ELSE /\ jobs' = [jobs EXCEPT ![id] = Idle]
                    /\ Turn(job.req, Resp(500, "Error streaming file"), {})

\* the entries the archive holds back while nothing takes its output
ArchiveBuffer == 2

\* GET /api/download-folder up to archive.finalize(): the checks answer at
\* once, otherwise the headers are set and the walk is queued
ZipStart(P) ==
    \E id \in 1..MaxJobs, p \in P :
        LET r == DownloadFolder(fs, p)
            rq == Request("download-folder", p, EMPTY)
            fullPath == Join2(uploadDir, p)
        IN  /\ FreeSlot(id)
            /\ fs' = fs
            /\ IF r.resp.status = 200
               THEN /\ jobs' = [jobs EXCEPT ![id] =
                                  [Idle EXCEPT !.kind = "zip", !.pc = "streaming", !.req = rq,
                                               !.header = r.resp.header,
                                               !.targetPath = StripTrailing(fullPath),
                                               !.filename = IF Basename(fullPath) = EMPTY
                                                            THEN <<"d", "o", "w", "n", "l", "o", "a", "d">>
                                                            ELSE Basename(fullPath),
                                               !.pending = DirectoryMatches(fs, fullPath)]]
                    /\ Turn(rq, Pending, {fullPath})
               ELSE /\ UNCHANGED jobs
                    /\ Turn(rq, r.resp, r.acc)

\* the archive takes up the next path of the walk: it is read and written to
\* the response, or, when the response is closed, kept in the archive's buffer
\* as long as there is room; a path that is gone is passed over
ZipEntry ==
    \E id \in 1..MaxJobs :
        LET job == jobs[id]
        IN  /\ job.kind = "zip"
            /\ job.pc = "streaming"
            /\ \/ ~job.closed
               \/ Cardinality(job.buffered) < ArchiveBuffer
            /\ \E q \in job.pending :
                LET entries == IF q \in DOMAIN fs
                               THEN {ArchiveEntry(fs, job.targetPath, job.filename, q)}
                               ELSE {}
                IN  /\ fs' = fs
                    /\ jobs' = [jobs EXCEPT ![id] =
                                  [job EXCEPT !.pending = @ \ {q},
                                              !.sent = IF job.closed THEN @ ELSE @ \cup entries,
                                              !.buffered = IF job.closed THEN @ \cup entries ELSE @,
                                              !.headersSent = TRUE,
                                              !.late = IF job.closed THEN @ + 1 ELSE @]]
                    /\ Turn(job.req, Pending, {q})

\* the walk is through: the trailer is written and the pipe ends the response
ZipFinalize ==
    \E id \in 1..MaxJobs :
        LET job == jobs[id]
        IN  /\ job.kind = "zip"
            /\ job.pc = "streaming"
            /\ ~job.closed
            /\ job.pending = {}
            /\ fs' = fs
            /\ jobs' = [jobs EXCEPT ![id] = Idle]
            /\ Turn(job.req,
                    [Resp(200, "application/zip") EXCEPT !.header = job.header, !.entries = job.sent],
                    {})

\* the client goes away while a response is streamed: the pipe lets go of the
\* closed response; no handler of the server listens for it
ClientClose ==
    \E id \in 1..MaxJobs :
        LET job == jobs[id]
        IN  /\ job.kind \in {"download", "zip"}
            /\ job.pc = "streaming"
            /\ ~job.closed
            /\ fs' = fs
            /\ jobs' = [jobs EXCEPT ![id] = [job EXCEPT !.closed = TRUE]]
            /\ Turn(job.req, Pending, {})

(***************************************************************************)
(* Tree operations on targets inside the storage root, one client          *)
(***************************************************************************)
MaxTreeEntries == 7

TreeDelete == Quiet /\ Delete(TreePaths)
TreeForceDelete == Quiet /\ ForceDelete(TreePaths)
TreeRename == Quiet /\ Rename(TreePaths)
TreeNewFolder == Quiet /\ NewFolder(FolderParents, FolderNames, MaxTreeEntries)
TreeUploadStart == Quiet /\ UploadStart(UploadParents, UploadNames, UploadBytes, MaxTreeEntries)

NextTree ==
    \/ TreeDelete
    \/ TreeForceDelete
    \/ TreeRename
    \/ TreeNewFolder
    \/ TreeUploadStart
    \/ UploadFinish

SpecTree == Init /\ [][NextTree]_vars

(***************************************************************************)
(* Requests whose paths leave the storage root, one client                 *)
(***************************************************************************)
MaxEscapeEntries == 6

EscapeFolderInputs == { Folder(Docs, <<File(report, B64_A)>>, << >>) }

EscapeList == Quiet /\ List(ListPaths)
EscapeDelete == Quiet /\ Delete(EscapePaths)
EscapeForceDelete == Quiet /\ ForceDelete(EscapePaths)
EscapeDownload == Quiet /\ Download(EscapePaths)
EscapeDownloadZip == Quiet /\ DownloadZip(EscapePaths)
EscapeInfo == Quiet /\ Info(EscapePaths)
EscapeRename == Quiet /\ Rename(EscapePaths)
EscapeNewFolder == Quiet /\ NewFolder(EscapeParents, FolderNames, MaxEscapeEntries)
EscapeUploadStart == Quiet /\ UploadStart(EscapeParents, UploadNames, UploadBytes, MaxEscapeEntries)
EscapeFolderStart == Quiet /\ FolderStart(EscapeParents, EscapeFolderInputs, MaxEscapeEntries)

NextEscape ==
    \/ EscapeList
    \/ EscapeDelete
    \/ EscapeForceDelete
    \/ EscapeDownload
    \/ EscapeDownloadZip
    \/ EscapeInfo
    \/ EscapeRename
    \/ EscapeNewFolder
    \/ EscapeUploadStart
    \/ UploadFinish
    \/ EscapeFolderStart
    \/ FolderWrite
    \/ FolderResume

SpecEscape == Init /\ [][NextEscape]_vars

(***************************************************************************)
(* Uploads of files and folders into the storage root; a forced delete     *)
(* may run while a folder upload is suspended                              *)
(***************************************************************************)
MaxUploadEntries == 10

UploadedFolder == <<"d">>

UploadsFolderStart == Quiet /\ FolderStart({EMPTY}, FolderInputs, MaxUploadEntries)
UploadsUploadStart == Quiet /\ UploadStart({Docs}, UploadNames, UploadBytes, MaxUploadEntries)
UploadsForceDelete == ForceDelete({UploadedFolder})

NextUploads ==
    \/ UploadsFolderStart
    \/ FolderWrite
    \/ FolderResume
    \/ UploadsUploadStart
    \/ UploadFinish
    \/ UploadsForceDelete

SpecUploads == Init /\ [][NextUploads]_vars

(***************************************************************************)
(* Uploads, the download of what an upload returned, and the answers of    *)
(* the server, one client                                                  *)
(***************************************************************************)
MaxTransferEntries == 7

TransferParents == { EMPTY, Docs, <<".", ".">> }

TransferNames == { report, <<"a", " ", "%", ".", "t">> }

TransferBytes == { <<65>>, <<66, 67>> }

TransferUploadStart ==
    Quiet /\ UploadStart(TransferParents, TransferNames, TransferBytes, MaxTransferEntries)

\* the client asks for the path the upload's response gave it
TransferDownload ==
    /\ Quiet
    /\ req.op = "upload"
    /\ resp.status = 200
    /\ Download({resp.path})

TransferUploadRefused == Quiet /\ UploadRefused({EMPTY})

TransferNewFolder == Quiet /\ NewFolder({EMPTY, report}, {Docs}, MaxTransferEntries)

TransferHealth == Quiet /\ HealthCheck

NextTransfer ==
    \/ TransferUploadStart
    \/ UploadFinish
    \/ TransferDownload
    \/ TransferUploadRefused
    \/ TransferNewFolder
    \/ TransferHealth

SpecTransfer == Init /\ [][NextTransfer]_vars

(***************************************************************************)
(* Listings of directories that folders and files are put into, one client *)
(***************************************************************************)
MaxListingEntries == 7

ListingFolders == { <<"B">>, <<"b">>, <<".", ".", "x">> }

ListingUploads == { <<"a">> }

ListingPaths == { EMPTY, <<"B">>, <<".", ".", "x">>, <<"z">>, <<"B", "/", "z">>, <<"a">> }

ListingNewFolder == Quiet /\ NewFolder({EMPTY}, ListingFolders, MaxListingEntries)
ListingUploadStart ==
    Quiet /\ UploadStart({EMPTY, <<"B">>}, ListingUploads, UploadBytes, MaxListingEntries)
ListingList == Quiet /\ List(ListingPaths)

NextListing ==
    \/ ListingNewFolder
    \/ ListingUploadStart
    \/ UploadFinish
    \/ ListingList

SpecListing == Init /\ [][NextListing]_vars

(***************************************************************************)
(* Downloads streamed to one client, who may go away, from a device that   *)
(* may fail                                                                *)
(***************************************************************************)
MaxStreamEntries == 8

StreamFolders == { Docs, <<"e">> }

StreamPaths == { Docs, <<"D", "o", "c", "s", "/", "r", "e", "p", "o", "r", "t", ".", "t", "x", "t">>, <<"z">> }

StreamNewFolder == Quiet /\ NewFolder({EMPTY, Docs}, StreamFolders, MaxStreamEntries)
StreamUploadStart ==
    Quiet /\ UploadStart({Docs, <<"D", "o", "c", "s", "/", "e">>}, UploadNames, TransferBytes, MaxStreamEntries)
StreamDownload == Quiet /\ StreamStart(StreamPaths)
StreamZip == Quiet /\ ZipStart(StreamPaths)

NextStream ==
    \/ StreamNewFolder
    \/ StreamUploadStart
    \/ UploadFinish
    \/ StreamDownload
    \/ StreamChunk
    \/ StreamEnd
    \/ StreamError
    \/ StreamZip
    \/ ZipEntry
    \/ ZipFinalize
    \/ ClientClose

SpecStream == Init /\ [][NextStream]_vars

(***************************************************************************)
(* Names that are blank or padded with blanks, one client                  *)
(***************************************************************************)
MaxNamesEntries == 7

BlankNames == { <<" ">>, <<" ", "a", ":">>, Docs }

BlankUploadNames == { <<" ", ".", "t">>, <<" ", "a", ".", "t">> }

BlankFolderInputs ==
    { Folder(<<" ">>, << >>, << >>),
      Folder(Docs, <<File(<<" ">>, B64_A)>>, <<Folder(<<" ">>, << >>, << >>)>>) }

NamesNewFolder == Quiet /\ NewFolder({EMPTY}, BlankNames, MaxNamesEntries)
NamesRename == Quiet /\ \E p \in {Docs}, n \in BlankNames :
                            Sync(RenameEntry(fs, p, n), Request("rename", p, n))
NamesUploadStart ==
    Quiet /\ UploadStart({EMPTY}, BlankUploadNames, UploadBytes, MaxNamesEntries)
NamesFolderStart == Quiet /\ FolderStart({EMPTY}, BlankFolderInputs, MaxNamesEntries)

NextNames ==
    \/ NamesNewFolder
    \/ NamesRename
    \/ NamesUploadStart
    \/ UploadFinish
    \/ NamesFolderStart
    \/ FolderWrite
    \/ FolderResume

SpecNames == Init /\ [][NextNames]_vars

(***************************************************************************)
(* Uploads of one name into one directory by clients that do not wait for  *)
(* each other: a second request may arrive while the first is being stored *)
(***************************************************************************)
MaxRaceEntries == 6

RaceNames == {report, <<"a", ":", ".", "t", ":">>}

RaceUploadStart == UploadStart({EMPTY}, RaceNames, TransferBytes, MaxRaceEntries)

NextRace ==
    \/ RaceUploadStart
    \/ UploadFinish

SpecRace == Init /\ [][NextRace]_vars

(***************************************************************************)
(* Folder uploads alone, one after the other: descriptors with files of    *)
(* no content, repeated names and nested folders                           *)
(***************************************************************************)
MaxMaterializeEntries == 12

MaterializeInputs ==
    { Folder(<<"d">>, <<File(<<"e">>, EMPTY), File(<<"k">>, B64_A)>>,
             <<Folder(<<"s">>, <<File(<<"k">>, B64_B), File(<<"k">>, B64_A)>>, << >>)>>),
      Folder(<<"d">>, << >>, <<Folder(<<"s">>, <<File(<<"e">>, EMPTY)>>, << >>)>>),
      Folder(Docs, <<File(report, <<"Q", "k", "M", "=">>)>>, << >>) }

MaterializeFolderStart ==
    Quiet /\ FolderStart({EMPTY, Docs}, MaterializeInputs, MaxMaterializeEntries)

NextMaterialize ==
    \/ MaterializeFolderStart
    \/ FolderWrite
    \/ FolderResume

SpecMaterialize == Init /\ [][NextMaterialize]_vars

(***************************************************************************)
(* The four requests that name an entry, with names that hold characters   *)
(* the sanitizer replaces, in the stem and in the extension                *)
(***************************************************************************)
MaxSanitizeEntries == 8

SanitizeFolderNames == { <<"a", ":">>, <<"b">> }

SanitizeUploadNames == { <<"a", "<", ".", "t", ":">>, <<"c", "?">> }

SanitizeRenamePaths == { <<"b">>, <<"a", "_">> }

SanitizeFolderInputs ==
    { Folder(<<"d", "|">>, <<File(<<"e", "*", ".", "t", "<">>, B64_A)>>,
             <<Folder(<<"s", "\"">>, << >>, << >>)>>) }

SanitizeNewFolder == Quiet /\ NewFolder({EMPTY}, SanitizeFolderNames, MaxSanitizeEntries)
SanitizeRename == Quiet /\ Rename(SanitizeRenamePaths)
SanitizeUploadStart ==
    Quiet /\ UploadStart({EMPTY}, SanitizeUploadNames, UploadBytes, MaxSanitizeEntries)
SanitizeFolderStart ==
    Quiet /\ FolderStart({EMPTY}, SanitizeFolderInputs, MaxSanitizeEntries)

NextSanitize ==
    \/ SanitizeNewFolder
    \/ SanitizeRename
    \/ SanitizeUploadStart
    \/ UploadFinish
    \/ SanitizeFolderStart
    \/ FolderWrite
    \/ FolderResume

SpecSanitize == Init /\ [][NextSanitize]_vars

(***************************************************************************)
(* Deletes and renames whose path resolves to the storage root itself      *)
(***************************************************************************)
MaxRootEntries == 7

RootPaths == { <<".">>, <<"D", "o", "c", "s", "/", ".", ".">>, Docs, report }

RootNewNames == { <<"u", "y">>, <<"b">> }

RootNewFolder == Quiet /\ NewFolder({EMPTY}, {Docs}, MaxRootEntries)
RootUploadStart == Quiet /\ UploadStart({EMPTY, Docs}, UploadNames, UploadBytes, MaxRootEntries)
RootDelete == Quiet /\ Delete(RootPaths)
RootForceDelete == Quiet /\ ForceDelete(RootPaths)
RootRename ==
    /\ Quiet
    /\ \E p \in RootPaths, n \in RootNewNames :
          Sync(RenameEntry(fs, p, n), Request("rename", p, n))

NextRoot ==
    \/ RootNewFolder
    \/ RootUploadStart
    \/ UploadFinish
    \/ RootDelete
    \/ RootForceDelete
    \/ RootRename

SpecRoot == Init /\ [][NextRoot]_vars

(***************************************************************************)
(* Health checks on a tree in which clients have stored entries, one of    *)
(* them under the name the health check writes its test file to            *)
(***************************************************************************)
MaxHealthEntries == 8

HealthNames == { <<".", "h", "e", "a", "l", "t", "h", "c", "h", "e", "c", "k">>, report }

HealthUploadStart ==
    Quiet /\ UploadStart({EMPTY, Docs}, HealthNames, TransferBytes, MaxHealthEntries)
HealthNewFolder == Quiet /\ NewFolder({EMPTY}, HealthNames, MaxHealthEntries)
HealthRequest == Quiet /\ HealthCheck

NextHealth ==
    \/ HealthUploadStart
    \/ UploadFinish
    \/ HealthNewFolder
    \/ HealthRequest

SpecHealth == Init /\ [][NextHealth]_vars

(***************************************************************************)
(* Create-folder and folder-upload requests for one name that arrive while *)
(* a folder upload is suspended on a write                                 *)
(***************************************************************************)
MaxFoldersEntries == 8

FoldersInputs ==
    { Folder(Docs, <<File(report, B64_A), File(<<"k">>, B64_B)>>, << >>),
      Folder(Docs, << >>, << >>) }

FoldersUploadStart ==
    Quiet /\ UploadStart({EMPTY}, UploadNames, UploadBytes, MaxFoldersEntries)
FoldersNewFolder == NewFolder({EMPTY, report}, {Docs}, MaxFoldersEntries)
FoldersFolderStart == FolderStart({EMPTY, report}, FoldersInputs, MaxFoldersEntries)

NextFolders ==
    \/ FoldersUploadStart
    \/ UploadFinish
    \/ FoldersNewFolder
    \/ FoldersFolderStart
    \/ FolderWrite
    \/ FolderResume

SpecFolders == Init /\ [][NextFolders]_vars

(***************************************************************************)
(* Folder uploads whose nested items are named . and .. or hold path       *)
(* separators, with forced deletes arriving while an upload is suspended   *)
(***************************************************************************)
MaxNestedEntries == 10

NestedInputs ==
    { Folder(<<"d">>, <<File(<<"k">>, B64_A), File(<<".", ".">>, B64_B)>>, << >>),
      Folder(<<"d">>, <<File(<<".", ".", "/", "k">>, B64_A), File(<<".">>, B64_B)>>,
             <<Folder(<<".", ".">>, <<File(<<".", ".", "\\", "k">>, B64_A)>>, << >>)>>) }

NestedDeletePaths == { Docs, <<"D", "o", "c", "s", "/", "d">>, <<"d">> }

NestedFolderStart == Quiet /\ FolderStart({EMPTY, Docs}, NestedInputs, MaxNestedEntries)
NestedForceDelete == ForceDelete(NestedDeletePaths)

NextNested ==
    \/ NestedFolderStart
    \/ FolderWrite
    \/ FolderResume
    \/ NestedForceDelete

SpecNested == Init /\ [][NextNested]_vars

(***************************************************************************)
(* Claims about the tree operations                                        *)
(***************************************************************************)
\* the tree without the entry t and everything below it
Without(f, t) == Restrict(f, {q \in DOMAIN f : q # t /\ ~StartsWith(q, t \o <<SLASH>>)})

NotEmptyMessage == "Folder is not empty. Delete contents first or use force delete."

\* the absolute location a request's path names
Target(rq) == StripTrailing(Join2(uploadDir, rq.path))

\* C5: a delete without force that names an existing directory with at least
\* one child is refused with the directory-not-empty failure, and the tree is
\* the same after the request as before it.
C5_DeleteRefusesNonEmpty ==
    [][(/\ req'.op = "delete"
        /\ req'.path # EMPTY
        /\ Under(uploadDir, Target(req'))
        /\ Target(req') \in DOMAIN fs
        /\ fs[Target(req')].dir
        /\ \E q \in DOMAIN fs : q # Target(req') /\ Dirname(q) = Target(req'))
       => (/\ resp'.status = 400
           /\ resp'.message = NotEmptyMessage
           /\ fs' = fs)]_vars

\* a delete of a directory that still has a child has just been refused
C5_Witness ==
    /\ req.op = "delete"
    /\ resp.message = NotEmptyMessage
    /\ Target(req) \in DOMAIN fs
    /\ \E q \in DOMAIN fs : InsideRoot(q) /\ Dirname(q) = Target(req)

\* C6: a forced delete of an existing entry under the storage root succeeds,
\* removes the entry with all its descendants and nothing else, and the entry
\* is no longer among its parent's children; a delete (forced or not) of an
\* absent path under the root answers not-found and changes nothing.
C6_ForceDeleteRemovesSubtree ==
    [][(/\ req'.op \in {"delete", "delete-force"}
        /\ req'.path # EMPTY
        /\ InsideRoot(Target(req')))
       => (/\ (ExistsSync(fs, Join2(uploadDir, req'.path)) /\ req'.op = "delete-force")
                => (/\ resp'.status = 200
                    /\ fs' = Without(fs, Target(req'))
                    /\ Basename(Target(req')) \notin ReaddirSync(fs', Dirname(Target(req'))))
           /\ ~ExistsSync(fs, Join2(uploadDir, req'.path))
                => (/\ resp'.status = 404
                    /\ fs' = fs))]_vars

\* a forced delete has just removed a directory that had a child
C6_Witness ==
    /\ req.op = "delete-force"
    /\ resp.status = 200
    /\ req.path = Docs
    /\ Target(req) \notin DOMAIN fs
    /\ Cardinality(DOMAIN fs) = Cardinality(DOMAIN InitialTree)

\* what a create-folder request asks for
FolderTarget(rq) == Join3(uploadDir, rq.path, Trim(Sanitize(rq.name)))

\* the tree with the directory t and its missing parents added
WithDirs(f, t) == [q \in DOMAIN f \cup Ancestors(t) |-> IF q \in DOMAIN f THEN f[q] ELSE DirEntry]

\* C7 as stated: create-folder fails with 409 and leaves the tree unchanged when
\* the entry exists, and whenever it does not exist it creates exactly the
\* directory (with missing parents) and returns the sanitized name.
C7_AsStated ==
    [][(req'.op = "folder" /\ Trim(req'.name) # EMPTY)
       => IF ExistsSync(fs, FolderTarget(req'))
          THEN resp'.status = 409 /\ fs' = fs
          ELSE /\ resp'.status = 200
               /\ resp'.name = Trim(Sanitize(req'.name))
               /\ fs' = WithDirs(fs, FolderTarget(req'))]_vars

\* C7 (amended): create-folder never auto-renames. When the entry exists the
\* request fails with 409 and the tree is unchanged. When it does not exist and
\* no component of its path is a regular file, exactly the directory and its
\* missing parents are created and the sanitized name is returned. When a
\* component of its path is a regular file the request fails with 500 and the
\* tree is unchanged.
C7_CreateFolderNoAutoRename ==
    [][(req'.op = "folder" /\ Trim(req'.name) # EMPTY)
       => IF ExistsSync(fs, FolderTarget(req'))
          THEN resp'.status = 409 /\ fs' = fs
          ELSE IF \E q \in Ancestors(FolderTarget(req')) : q \in DOMAIN fs /\ ~fs[q].dir
          THEN resp'.status = 500 /\ fs' = fs
          ELSE /\ resp'.status = 200
               /\ resp'.name = Trim(Sanitize(req'.name))
               /\ fs' = WithDirs(fs, FolderTarget(req'))]_vars

\* createFolder("", "Docs") has been answered with AlreadyExists, and the root
\* holds the one Docs the first request made
C7_Witness ==
    /\ req.op = "folder"
    /\ req.path = EMPTY
    /\ req.name = Docs
    /\ resp.status = 409
    /\ Docs \in ReaddirSync(fs, uploadDir)
    /\ fs[Join2(uploadDir, Docs)].dir

\* the names a rename request works with
OldFull(rq) == StripTrailing(Join2(uploadDir, rq.path))
NewFull(rq) == Join2(Dirname(OldFull(rq)), Trim(Sanitize(rq.name)))

\* the entry at old and its subtree, moved to new
Moved(f, old, new) ==
    LET sub == {q \in DOMAIN f : q = old \/ StartsWith(q, old \o <<SLASH>>)}
        rest == DOMAIN f \ sub
    IN  /\ DOMAIN fs' = rest \cup {new \o SubSeq(q, Len(old) + 1, Len(q)) : q \in sub}
        /\ \A q \in rest : fs'[q] = f[q]
        /\ \A q \in sub : fs'[new \o SubSeq(q, Len(old) + 1, Len(q))] = f[q]
        /\ sub \cap DOMAIN fs' = {}

\* C8: rename answers not-found when the old path is absent and already-exists
\* when an entry is at the sibling target (the entry's own name included), the
\* tree unchanged in both cases; otherwise, in one step, the entry and its
\* subtree leave the old path and stand at parent/sanitizedNewName, under the
\* same parent, and no other entry changes.
C8_RenameMovesEntry ==
    [][(/\ req'.op = "rename"
        /\ req'.path # EMPTY
        /\ Trim(req'.name) # EMPTY
        /\ InsideRoot(OldFull(req'))
        /\ InsideRoot(NewFull(req')))
       => IF ~ExistsSync(fs, Join2(uploadDir, req'.path))
          THEN resp'.status = 404 /\ fs' = fs
          ELSE IF NewFull(req') \in DOMAIN fs
          THEN resp'.status = 409 /\ fs' = fs
          ELSE /\ resp'.status = 200
               /\ Moved(fs, OldFull(req'), NewFull(req'))
               /\ Dirname(NewFull(req')) = Dirname(OldFull(req'))
               /\ Basename(NewFull(req')) = Trim(Sanitize(req'.name))]_vars

\* a directory holding a file has just been renamed, file and all
C8_Witness ==
    /\ req.op = "rename"
    /\ resp.status = 200
    /\ req.path = Docs
    /\ Join2(NewFull(req), report) \in DOMAIN fs
    /\ OldFull(req) \notin DOMAIN fs

(***************************************************************************)
(* Claims about paths that leave the storage root                          *)
(***************************************************************************)
TargetOps == {"delete", "delete-force", "download", "download-folder", "rename", "file-info"}

CreatingOps == {"upload", "upload-folder", "folder"}

\* q lies outside the storage root
Outside(q) == ~Under(uploadDir, q)

\* C1: for delete, delete-force, download, download-folder, rename and
\* file-info, a path that resolves outside the storage root (a sibling whose
\* path has the root's path as a string prefix included, and for rename the
\* target computed from the old path's parent included) is answered with 400
\* 'Invalid path', and no entry outside the root is handed to the filesystem.
C1_EscapingTargetsRejected ==
    (/\ req.op \in TargetOps
     /\ req.path # EMPTY
     /\ \/ Outside(Target(req))
        \/ req.op = "rename" /\ Trim(Sanitize(req.name)) # EMPTY /\ Outside(NewFull(req)))
    => (/\ resp.status = 400
        /\ resp.message = "Invalid path"
        /\ \A q \in acc : ~Outside(q))

\* C2: an upload, folder upload or create-folder whose currentPath resolves
\* outside the storage root fails with 400 'Invalid path', and every entry
\* outside the root was there from the start.
C2_CreatingOpsConfined ==
    /\ (req.op \in CreatingOps /\ Outside(StripTrailing(Join2(uploadDir, req.path))))
        => (resp.status = 400 /\ resp.message = "Invalid path")
    /\ \A q \in DOMAIN fs : Outside(q) => q \in DOMAIN InitialTree

\* C3: a listing whose normalized path is absolute or begins with .. is
\* answered with 400 'Invalid path', and no path was handed to the filesystem
\* in answering it.
C3_ListRejectsWithoutAccess ==
    (/\ req.op = "list"
     /\ \/ IsAbsolute(Normalize(req.path))
        \/ StartsWith(Normalize(req.path), <<".", ".">>))
    => (/\ resp.status = 400
        /\ resp.message = "Invalid path"
        /\ acc = {})

\* a listing of Docs/../../ux, which normalizes to ../ux, has been refused
C3_Witness ==
    /\ req.op = "list"
    /\ req.path = <<"D", "o", "c", "s", "/", ".", ".", "/", ".", ".", "/", "u", "x">>
    /\ Normalize(req.path) = <<".", ".", "/", "u", "x">>
    /\ resp.status = 400
    /\ acc = {}

(***************************************************************************)
(* Claims about uploads                                                    *)
(***************************************************************************)
\* the j-th name of the sequence name, name (1), name (2), ... for one run of
\* a duplicate-name loop; a nested directory has no extension
Expected(a, j) ==
    LET base == Sanitize(a.want)
        stem == IF a.kind = "folder" THEN base ELSE ParseName(base)
        ext == IF a.kind = "folder" THEN EMPTY ELSE ParseExt(base)
    IN  IF j = 0 THEN base
        ELSE stem \o <<" ", "(">> \o NumStr(j) \o <<")">> \o ext

\* when the directory holds exactly the first k names of the sequence, the
\* loop chooses the next one
Follows(a) ==
    LET k == Cardinality(a.siblings)
    IN  a.siblings = {Expected(a, j) : j \in 0..(k - 1)} => a.got = Expected(a, k)

\* C4 as stated: every allocation into a directory holding exactly the names
\* given out so far yields the next name of name, name (1), name (2), ...
C4_AsStated == \A i \in 1..Len(allocs) : Follows(allocs[i])

\* C4 (amended): for every desired name other than . and .., allocating it into
\* a directory that holds exactly the k names given out so far yields name for
\* k = 0 and name (k) otherwise, the suffix standing before the extension of a
\* file and at the end of a nested directory's name.
C4_AllocationSequence ==
    \A i \in 1..Len(allocs) :
        Sanitize(allocs[i].want) \notin {<<".">>, <<".", ".">>} => Follows(allocs[i])

\* the third report.txt stored in one directory has been named report (2).txt
C4_Witness ==
    \E i \in 1..Len(allocs) :
        /\ allocs[i].want = report
        /\ allocs[i].siblings = {report, <<"r", "e", "p", "o", "r", "t", " ", "(", "1", ")", ".", "t", "x", "t">>}
        /\ allocs[i].got = <<"r", "e", "p", "o", "r", "t", " ", "(", "2", ")", ".", "t", "x", "t">>

\* where a folder upload puts its top-level directory
UploadTarget(rq) == Join3(uploadDir, rq.path, Sanitize(rq.desc.name))

\* C9: a folder upload that finds an entry at its top-level target fails with
\* 409, starts no traversal, and leaves the whole tree, the existing entry and
\* its contents included, as it was.
C9_FolderUploadRefusesExisting ==
    [][(/\ Quiet
        /\ req'.op = "upload-folder"
        /\ req'.desc.name # EMPTY
        /\ ExistsSync(fs, UploadTarget(req')))
       => (/\ resp'.status = 409
           /\ fs' = fs
           /\ jobs' = jobs)]_vars

\* a folder upload has been refused over a directory that holds entries
C9_Witness ==
    /\ req.op = "upload-folder"
    /\ resp.status = 409
    /\ Quiet
    /\ UploadTarget(req) \in DOMAIN fs
    /\ ReaddirSync(fs, UploadTarget(req)) # {}

\* C10: a write that fails leaves the rest of the traversal in place, and a
\* folder upload that comes to its end, with failed items or without, answers
\* 200 with the top-level relative path and sanitized name, every eligible item
\* of the descriptor having been taken up by the loops or lying in a subfolder
\* that could not be made.
C10_FolderUploadTolerant ==
    [][/\ \A id \in 1..MaxJobs :
            (/\ jobs[id].kind = "folder"
             /\ jobs[id].pc = "writing"
             /\ jobs'[id].tally.failed > jobs[id].tally.failed)
            => (/\ jobs'[id].kind = "folder"
                /\ jobs'[id].stack = jobs[id].stack)
       /\ (/\ req'.op = "upload-folder"
           /\ \/ tally'.failed > 0
              \/ \E id \in 1..MaxJobs : /\ jobs[id].kind = "folder"
                                        /\ jobs[id].pc = "written"
                                        /\ jobs'[id].kind = "idle")
          => (/\ resp'.status = 200
              /\ resp'.path = Relative(uploadDir, UploadTarget(req'))
              /\ resp'.name = Sanitize(req'.desc.name)
              /\ tally'.attempted + tally'.skipped = Eligible(req'.desc))]_vars

\* a folder upload has answered 200 although the write into its first
\* subfolder failed: the later subfolders were made and the last one's file
\* is stored
C10_Witness ==
    /\ req.op = "upload-folder"
    /\ resp.status = 200
    /\ tally.failed = 1
    /\ tally.attempted = Eligible(req.desc)
    /\ <<"/", "u", "/", "d", "/", "s", " ", "(", "2", ")", "/", "k">> \in DOMAIN fs
    /\ <<"/", "u", "/", "d", "/", "s", "/", ".", ".", " ", "(", "1", ")">> \notin DOMAIN fs

(***************************************************************************)
(* Claims about transfers and answers                                      *)
(***************************************************************************)
\* C11: when an upload has been accepted and the next request downloads the
\* path its response returned, the download answers 200 with exactly the
\* uploaded bytes, and URI-decoding the filename value of its
\* Content-Disposition header gives the name the file was stored under.
C11_RoundTrip ==
    [][(/\ req.op = "upload"
        /\ resp.status = 200
        /\ req'.op = "download"
        /\ req'.path = resp.path)
       => (/\ resp'.status = 200
           /\ resp'.data = req.data
           /\ DecodeURIComponent(FilenameValue(resp'.header)) = resp.name)]_vars

\* C12: an upload over the file-count cap is answered with 400 and the
\* message for the count, an upload over the file-size cap with 400 and the
\* message for the size.
C12_LimitsAnswered ==
    /\ (req.op = "upload" /\ req.count > FilesLimit)
        => (resp.status = 400 /\ resp.message = "Too many files. Maximum is 50 files")
    /\ (req.op = "upload" /\ req.count <= FilesLimit /\ req.size > FileSizeLimit)
        => (resp.status = 400 /\ resp.message = "File too large. Maximum size is 100MB")

(***************************************************************************)
(* Claims about listings                                                   *)
(***************************************************************************)
\* the segments of a relative path with . and .. collapsed
PathSegments(p) == Segments(Normalize(p))

\* the parent the listing is to name: none for the root path, the empty path
\* for a single segment, the path without its last segment otherwise
ParentOf(p) ==
    IF p = EMPTY THEN [null |-> TRUE, path |-> EMPTY]
    ELSE [null |-> FALSE,
          path |-> JoinSegs(SubSeq(PathSegments(p), 1, Len(PathSegments(p)) - 1))]

\* C13: a listing of a relative path that stays inside the storage root
\* answers 200 with no rows and the parent path when nothing is at the path,
\* and 200 with no rows and totalItems 0 when an empty directory is there.
C13_ListingEmptyOrAbsent ==
    (/\ req.op = "list"
     /\ ~IsAbsolute(req.path)
     /\ Under(uploadDir, StripTrailing(Join2(uploadDir, req.path))))
    => LET fullPath == Join2(uploadDir, req.path)
       IN  /\ ~ExistsSync(fs, fullPath)
                => (/\ resp.status = 200
                    /\ resp.files = << >>
                    /\ resp.parent = ParentOf(req.path))
           /\ (ExistsSync(fs, fullPath) /\ IsDirectory(fs, fullPath)
                   /\ ReaddirSync(fs, fullPath) = {})
                => (/\ resp.status = 200
                    /\ resp.files = << >>
                    /\ resp.totals # << >>
                    /\ resp.totals[1] = 0)

\* a sorts no later than b: its letters taken without case come first in the
\* lexical order, or the two names differ in case only
NameLeq(a, b) == LocaleCompare(a, b) <= 0

\* C14: in a successful listing of a directory every directory row stands
\* before every file row, within the directories and within the files the
\* names are in case-insensitive lexical order (names that differ in case
\* only in either order), and the rows are the directory's children whose
\* stat succeeded, each once and with its kind.
C14_ListingSorted ==
    (req.op = "list" /\ resp.status = 200 /\ ExistsSync(fs, Join2(uploadDir, req.path)))
    => LET rows == resp.files
           fullPath == Join2(uploadDir, req.path)
       IN  /\ \A i, j \in 1..Len(rows) :
                i < j => /\ ~(~rows[i].isDirectory /\ rows[j].isDirectory)
                         /\ rows[i].isDirectory = rows[j].isDirectory
                                => NameLeq(rows[i].name, rows[j].name)
           /\ {rows[i].name : i \in 1..Len(rows)}
                = {n \in ReaddirSync(fs, fullPath) : Join2(fullPath, n) \notin resp.logged}
           /\ \A i, j \in 1..Len(rows) : rows[i].name = rows[j].name => i = j
           /\ \A i \in 1..Len(rows) : rows[i].isDirectory = fs[Join2(fullPath, rows[i].name)].dir

\* the root has been listed as B, b, a: the two directories, whose names
\* differ in case only, before the file whose name sorts first
C14_Witness ==
    /\ req.op = "list"
    /\ req.path = EMPTY
    /\ resp.status = 200
    /\ Len(resp.files) = 3
    /\ resp.files[1].name = <<"B">> /\ resp.files[1].isDirectory
    /\ resp.files[2].name = <<"b">> /\ resp.files[2].isDirectory
    /\ resp.files[3].name = <<"a">> /\ ~resp.files[3].isDirectory

(***************************************************************************)
(* Claims about streamed downloads                                         *)
(***************************************************************************)
\* the files and the empty directories below d
FilesBelow(d) == {q \in DOMAIN fs : q # d /\ Under(d, q) /\ ~fs[q].dir}

EmptyDirsBelow(d) ==
    {q \in DOMAIN fs : q # d /\ Under(d, q) /\ fs[q].dir /\ ReaddirSync(fs, q) = {}}

\* C15: the archive of a directory holds every file below it under
\* <folder base name>/<relative path> with the file's bytes and every empty
\* subdirectory as a directory entry, at least N + M entries in all and none
\* that names something not below the directory; a download-folder of a path
\* inside the root that is absent or not a directory is answered 404 without
\* headers or entries of an archive.
C15_ArchiveReproducesTree ==
    LET d == Target(req)
    IN  /\ (req.op = "download-folder" /\ resp.status = 200)
            => (/\ \A q \in FilesBelow(d) :
                     \E e \in resp.entries :
                        /\ e.name = Basename(d) \o <<SLASH>> \o SubSeq(q, Len(d) + 2, Len(q))
                        /\ ~e.isDirectory
                        /\ e.data = fs[q].data
                /\ \A q \in EmptyDirsBelow(d) :
                     \E e \in resp.entries :
                        /\ e.name = Basename(d) \o <<SLASH>> \o SubSeq(q, Len(d) + 2, Len(q))
                        /\ e.isDirectory
                /\ Cardinality(resp.entries)
                     >= Cardinality(FilesBelow(d)) + Cardinality(EmptyDirsBelow(d))
                /\ \A e \in resp.entries :
                     \E q \in DOMAIN fs :
                        /\ q # d /\ Under(d, q)
                        /\ e.name = Basename(d) \o <<SLASH>> \o SubSeq(q, Len(d) + 2, Len(q))
                        /\ e.isDirectory = fs[q].dir)
        /\ (/\ req.op = "download-folder"
            /\ req.path # EMPTY
            /\ InsideRoot(d)
            /\ (d \notin DOMAIN fs \/ ~fs[d].dir))
            => (/\ resp.status = 404
                /\ resp.entries = {}
                /\ resp.header = EMPTY)

\* the archive of Docs has been sent: the file two levels down with its
\* bytes, and the empty directory Docs/Docs
C15_Witness ==
    /\ req.op = "download-folder"
    /\ req.path = Docs
    /\ resp.status = 200
    /\ \E e \in resp.entries :
            e.name = <<"D", "o", "c", "s", "/", "e", "/", "r", "e", "p", "o", "r", "t", ".", "t", "x", "t">> /\ ~e.isDirectory /\ e.data = <<66, 67>>
    /\ \E e \in resp.entries : e.name = <<"D", "o", "c", "s", "/", "D", "o", "c", "s">> /\ e.isDirectory

\* C17: once the handler of a stream's error has run on a response whose
\* headers are out, the response is ended or destroyed.
C17_ErroredResponseClosed ==
    \A id \in 1..MaxJobs :
        (/\ jobs[id].kind \in {"download", "zip"}
         /\ jobs[id].errored
         /\ jobs[id].headersSent)
        => jobs[id].pc \in {"ended", "destroyed"}

\* C18: after the client has gone away the archive takes up no path of the
\* walk beyond the one it was at.
C18_NoReadsAfterDisconnect ==
    \A id \in 1..MaxJobs : jobs[id].kind = "zip" => jobs[id].late <= 1

(***************************************************************************)
(* Claims about what the answers carry and which names are taken           *)
(***************************************************************************)
\* the text s holds the absolute path of the storage root
HoldsRoot(s) ==
    \E i \in 1..Len(s) :
        i + Len(uploadDir) - 1 <= Len(s) /\ SubSeq(s, i, i + Len(uploadDir) - 1) = uploadDir

\* C19: no field of a response holds the absolute path of the storage root,
\* the text of a forwarded error message included.
C19_RootNeverExposed ==
    /\ ~HoldsRoot(resp.path)
    /\ ~HoldsRoot(resp.name)
    /\ ~HoldsRoot(resp.header)
    /\ ~HoldsRoot(resp.errPath)
    /\ \A i \in 1..Len(resp.files) : ~HoldsRoot(resp.files[i].path)
    /\ \A e \in resp.entries : ~HoldsRoot(e.name)

\* the name is empty once sanitized and trimmed
Blank(n) == Trim(Sanitize(n)) = EMPTY

\* C20: create-folder, rename, file upload (by the stem of the file name) and
\* folder upload (by the top-level name) answer 400 to a name that is empty
\* once sanitized and trimmed, and every entry under the storage root bears a
\* name that is not blank and has no blank at either end.
C20_BlankNamesRejected ==
    /\ (req.op = "folder" /\ Blank(req.name)) => resp.status = 400
    /\ (req.op = "rename" /\ Blank(req.name)) => resp.status = 400
    /\ (req.op = "upload" /\ resp.status # 0 /\ Blank(ParseName(req.name)))
        => resp.status = 400
    /\ (req.op = "upload-folder" /\ resp.status # 0 /\ Blank(req.desc.name))
        => resp.status = 400
    /\ \A q \in DOMAIN fs :
        InsideRoot(q) => (~Blank(Basename(q)) /\ Trim(Basename(q)) = Basename(q))

(***************************************************************************)
(* Claims about concurrent requests                                        *)
(***************************************************************************)
\* job id is an upload whose file is being stored
Storing(id) == jobs[id].kind = "upload" /\ jobs[id].pc = "writing"

\* C21: nothing locks a name between the allocator's check and the creation
\* of the file: an upload that arrives while another upload of the same name
\* into the same directory is still being stored, its file not yet there, is
\* allocated the very same name; and every upload whose write goes through
\* answers success under the name it was allocated and leaves its own content
\* there, whatever an earlier upload stored under that name.
C21_UploadsRace ==
    [][\A id \in 1..MaxJobs :
          /\ \A other \in 1..MaxJobs :
                (/\ Storing(other)
                 /\ jobs[id].kind = "idle"
                 /\ jobs'[id].kind = "upload"
                 /\ jobs'[id].req.path = jobs[other].req.path
                 /\ jobs'[id].req.name = jobs[other].req.name
                 /\ ~ExistsSync(fs, jobs[other].wpath))
                => jobs'[id].wpath = jobs[other].wpath
          /\ (/\ Storing(id)
              /\ jobs'[id].kind = "idle"
              /\ ~WriteThrows(fs, jobs[id].wpath))
             => /\ resp'.status = 200
                /\ resp'.name = jobs[id].filename
                /\ fs'[jobs[id].wpath] = FileEntry(jobs[id].wdata)]_vars

\* two uploads were allocated report.txt: the first has answered success and
\* its content is stored; the second, still being stored, holds the same path
\* and other content, which its write will put in place of the first
C21_Witness ==
    /\ req.op = "upload"
    /\ resp.status = 200
    /\ resp.name = report
    /\ ReaddirSync(fs, uploadDir) = {report}
    /\ fs[Join2(uploadDir, report)].data = <<65>>
    /\ \E id \in 1..MaxJobs :
          /\ Storing(id)
          /\ jobs[id].req.name = report
          /\ jobs[id].filename = report
          /\ jobs[id].wpath = Join2(uploadDir, report)
          /\ jobs[id].wdata = <<66, 67>>
          /\ ~WriteThrows(fs, jobs[id].wpath)

(***************************************************************************)
(* Claims about the name allocator                                         *)
(***************************************************************************)
\* the stem and the extension one run of the duplicate-name loop works with
StemOf(a) ==
    IF a.kind = "upload" THEN Sanitize(ParseName(a.want))
    ELSE IF a.kind = "file" THEN ParseName(Sanitize(a.want))
    ELSE Sanitize(a.want)

ExtOf(a) ==
    IF a.kind = "upload" THEN ParseExt(a.want)
    ELSE IF a.kind = "file" THEN ParseExt(Sanitize(a.want))
    ELSE EMPTY

\* the n-th candidate: the desired name for n = 0, stem (n)ext after it
Candidate(a, n) ==
    IF n = 0 THEN StemOf(a) \o ExtOf(a)
    ELSE StemOf(a) \o <<" ", "(">> \o NumStr(n) \o <<")">> \o ExtOf(a)

\* an entry of that name exists in the directory at the moment of the check:
\* one of its children, or the directory's own . and ..
Present(a, name) == name \in a.siblings \cup {<<".">>, <<".", ".">>}

\* the most candidates a loop can go through: one per child and the two dots
MostTries(a) == Cardinality(a.siblings) + 2

Allocated(a) ==
    /\ ~Present(a, a.got)
    /\ \E n \in 0..MostTries(a) :
          /\ a.got = Candidate(a, n)
          /\ \A m \in 0..(n - 1) : Present(a, Candidate(a, m))

RECURSIVE FileDescriptors(_)
FileDescriptors(d) ==
    LET named == Cardinality({i \in 1..Len(d.files) : d.files[i].name # EMPTY})
        RECURSIVE Sum(_)
        Sum(S) == IF S = {} THEN 0
                  ELSE LET i == CHOOSE x \in S : TRUE
                       IN  FileDescriptors(d.folders[i]) + Sum(S \ {i})
    IN  named + Sum({i \in 1..Len(d.folders) : d.folders[i].name # EMPTY})

\* the files stored below the directory t
FilesUnder(f, t) == {q \in DOMAIN f : Under(t, q) /\ q # t /\ ~f[q].dir}

\* C23: a folder upload that answers success after a traversal without any
\* failure has stored one file for every named file descriptor of the tree,
\* those with the empty string as content included.
C23_EveryDescriptorStored ==
    (/\ req.op = "upload-folder"
     /\ resp.status = 200
     /\ tally.failed = 0
     /\ tally.skipped = 0)
    => Cardinality(FilesUnder(fs, UploadTarget(req))) = FileDescriptors(req.desc)

(***************************************************************************)
(* Claims about the totals of a listing                                    *)
(***************************************************************************)
\* the sizes of the file rows among the first n rows, added up
RECURSIVE FileSizes(_, _)
FileSizes(rows, n) ==
    IF n = 0 THEN 0
    ELSE (IF rows[n].isDirectory THEN 0 ELSE rows[n].size) + FileSizes(rows, n - 1)

\* C24: every successful listing response, for a directory with entries, for
\* an empty directory and for a path that does not exist alike, carries
\* totalItems equal to its number of rows and totalSize equal to the sum of
\* the sizes of its file rows; entries whose stat failed are in neither.
C24_ListingTotals ==
    (req.op = "list" /\ resp.status = 200)
    => /\ resp.totals = <<Len(resp.files), FileSizes(resp.files, Len(resp.files))>>
       /\ \A i \in 1..Len(resp.files) :
             Join3(uploadDir, req.path, resp.files[i].name) \notin resp.logged

(***************************************************************************)
(* Claims about sanitized names                                            *)
(***************************************************************************)
\* the name holds none of the characters < > : " / \ | ? *
Clean(name) == \A i \in 1..Len(name) : name[i] \notin ForbiddenChars

\* C25: after any sequence of upload, upload-folder, create-folder and rename
\* requests no entry of the storage root has a name that holds one of the
\* characters < > : " / \ | ? *, in its stem or in its extension.
C25_NamesSanitized ==
    \A q \in DOMAIN fs : InsideRoot(q) => Clean(Basename(q))

(***************************************************************************)
(* Claims about the storage root itself                                    *)
(***************************************************************************)
\* C26: after any sequence of delete, delete-force and rename requests, those
\* whose path resolves to the storage root itself included, the storage root
\* still exists as a directory at its configured path.
C26_RootSurvives ==
    /\ uploadDir \in DOMAIN fs
    /\ fs[uploadDir].dir

\* C27: a health request leaves the storage tree as it found it, entries and
\* contents alike, also when a client has stored an entry named .healthcheck
\* directly under the storage root.
C27_HealthLeavesTree ==
    [][req'.op = "health" => fs' = fs]_vars

(***************************************************************************)
(* Claims about concurrent folder creation                                 *)
(***************************************************************************)
\* the step is the first turn of a create-folder or folder-upload request
\* with a usable name: no suspended folder upload moves in it
FirstTurn ==
    /\ \/ req'.op = "folder" /\ Trim(req'.name) # EMPTY
       \/ req'.op = "upload-folder" /\ req'.desc.name # EMPTY
    /\ \A id \in 1..MaxJobs : jobs[id].kind = "folder" => jobs'[id] = jobs[id]

\* the directory the request is to create
Wanted(rq) == IF rq.op = "folder" THEN FolderTarget(rq) ELSE UploadTarget(rq)

\* the request has gone through: it has answered success, or it is a folder
\* upload now suspended on its first write
WentThrough(t) ==
    /\ t \in DOMAIN fs'
    /\ fs'[t].dir
    /\ \/ resp'.status = 200 /\ jobs' = jobs
       \/ /\ req'.op = "upload-folder"
          /\ \E id \in 1..MaxJobs :
                /\ jobs[id].kind = "idle"
                /\ jobs'[id].kind = "folder"
                /\ jobs'[id].targetPath = t

\* no two suspended folder uploads hold the same top-level directory
OneOwner ==
    \A a, b \in 1..MaxJobs :
        (a # b /\ jobs'[a].kind = "folder" /\ jobs'[b].kind = "folder")
        => jobs'[a].targetPath # jobs'[b].targetPath

Below(t, q) == StartsWith(q, t \o <<SLASH>>)

\* C29: whatever names the nested files and subfolders of a descriptor carry,
\* every file a folder upload stores and every directory it makes for a
\* subfolder lies below the top-level directory made for the request.
C29_NestedItemsStayBelowTarget ==
    [][req'.op = "upload-folder"
       => /\ \A id \in 1..MaxJobs :
                (/\ jobs[id].kind = "folder"
                 /\ jobs[id].pc = "writing"
                 /\ jobs'[id].pc = "written"
                 /\ fs' # fs)
                => Below(jobs[id].targetPath, jobs[id].wpath)
          /\ \A i \in 1..Len(allocs') :
                (/\ allocs'[i].kind = "folder"
                 /\ Join2(allocs'[i].dir, allocs'[i].got) \in DOMAIN fs'
                 /\ Join2(allocs'[i].dir, allocs'[i].got) \notin DOMAIN fs)
                => Below(UploadTarget(req'), Join2(allocs'[i].dir, allocs'[i].got))]_vars

====
